---- MODULE Spec2Model ----
(***************************************************************************)
(* Authentication and session lifecycle of soliloquio: the refresh-token   *)
(* store (services/src/authentication/refresh_token.rs), the verification  *)
(* token store (services/src/verification_token/service.rs), the token     *)
(* codec (services/src/authentication/token.rs) and the GraphQL mutations  *)
(* built on them.                                                          *)
(*                                                                         *)
(* Every request is a process.  A handler is cut at its database round     *)
(* trips: one action is one round trip together with the local code that   *)
(* runs around it, so the interleavings of the actions are the             *)
(* interleavings the shared database can see.  Time is a global clock      *)
(* that Tick advances; Utc::now() reads it.                                *)
(*                                                                         *)
(* The database answers every query.  Its failures appear only where a     *)
(* handler goes on after them: the cleanup_expired_tokens call every        *)
(* mutation ends with, the revoke_all_refresh_tokens of a password change,  *)
(* the create_token of sign_up and the count of users that sign_up makes    *)
(* in single-user mode.  A failure that a handler returns to its caller     *)
(* ends the request with the error of the store and is not represented.     *)
(***************************************************************************)
EXTENDS Integers, FiniteSets, Sequences, TLC

VARIABLES
    now,                  \* the wall clock, Utc::now()
    users,                \* the users table: the ids that have a row
    user_row,             \* the users table: per id, the password hash and updated_at of its row
    refresh_tokens,       \* the refresh_tokens table: a set of rows
    verification_tokens,  \* the verification_tokens table: a set of rows
    issued,               \* raw refresh tokens handed to a caller so far
    vissued,              \* verification tokens handed out so far: raw value, owner, kind, expiry,
                          \* and the address of the owner when the token was made
    consumed,             \* per raw verification token: the validate_token calls that succeeded
    revoked,              \* raw refresh tokens whose revoke / logout has returned
    access_tokens,        \* the access tokens handed out with a session, or minted directly
    authenticated,        \* credentials a request that only authenticates has accepted so far
    call,                 \* per request in flight: the handler it runs and where it is
    last                  \* the response the step just taken returned, if it returned one

vars == <<now, users, user_row, refresh_tokens, verification_tokens, issued, vissued,
          consumed, revoked, access_tokens, authenticated, call, last>>

-----------------------------------------------------------------------------
(* Bounds of the model                                                     *)

Procs == {1, 2}
UserIds == {"U", "V"}
\* the ids Uuid::new_v4() can give to accounts that sign up
NewUserIds == {"W"}
AllUserIds == UserIds \cup NewUserIds
MaxRefresh == 2
MaxVerification == 2

(* Configuration read from the environment                                 *)
RefreshTokenExpiration == 1
Leeway == 1

\* the clock runs until a token issued at time 0 has expired and can be swept
MaxTime == RefreshTokenExpiration + 1

-----------------------------------------------------------------------------
(* Values                                                                  *)

\* Option<T>: None is the empty sequence, Some(x) is <<x>>
None == << >>
Some(x) == <<x>>
IsSome(o) == Len(o) = 1
Unwrap(o) == o[1]

Kinds == {"EmailVerification", "PasswordReset"}

\* the passwords a caller types, by what the validators can tell of them:
\* whether validate_password accepts the text (12 characters, upper, lower,
\* digit, special) and whether it starts with "$argon2"
WeakPassword == [text |-> "weak", strong |-> FALSE, argon2_prefix |-> FALSE]
StrongPassword == [text |-> "CorrectHorse#1", strong |-> TRUE, argon2_prefix |-> FALSE]
PrefixedPassword == [text |-> "$argon2Horse#2", strong |-> TRUE, argon2_prefix |-> TRUE]
Passwords == {WeakPassword, StrongPassword, PrefixedPassword}

\* password.rs: hash_password and verify_password (Argon2id; the salt is left out)
hash_password(password) == [argon2 |-> password]
verify_password(password, hash) == hash.argon2 = password

\* the address an account registers with, as its characters
RegisteredEmail(user_id) ==
    CASE user_id = "U" -> <<"u", "@", "h">>
      [] user_id = "V" -> <<"v", "@", "h">>
      [] OTHER -> <<"w", "@", "h">>

\* a row of the users table as the handlers read it
UserRow(email, password_hash, updated_at) ==
    [email |-> email, email_verified_at |-> None, password |-> password_hash,
     updated_at |-> updated_at]

\* a string that is no JWT ("fake.nonexistent.token")
FakeToken == [iss |-> "", sub |-> "", exp |-> 0, iat |-> 0, jti |-> 0, signed |-> FALSE]

\* SHA-256 then base64: deterministic, one-way, never the raw value itself
hash_token(token) == [sha256_b64 |-> token]

\* the ids drawn so far that anyone still knows: of the tokens handed out, of
\* the stored rows and of the creates in flight
DrawnIds ==
    {t.jti : t \in issued} \cup {r.id : r \in refresh_tokens}
        \cup {IF call[p].op \in {"create_refresh_token", "sign_in", "sign_up"}
              THEN call[p].token.jti ELSE 0 : p \in Procs}

\* Uuid::new_v4(): a value no earlier call has drawn
FreshRefreshId == 1 + CHOOSE n \in DrawnIds \cup {0} : \A m \in DrawnIds : m <= n

\* a refresh token whose claims carry no token id of their own
generate_refresh_token_without_jti(user_id) ==
    [iss |-> "host", sub |-> user_id, exp |-> now + RefreshTokenExpiration,
     iat |-> now, jti |-> 1, signed |-> TRUE]

generate_refresh_token(user_id) ==
    [iss |-> "host", sub |-> user_id, exp |-> now + RefreshTokenExpiration,
     iat |-> now, jti |-> FreshRefreshId, signed |-> TRUE]

\* a decode that allows no leeway on exp
verify_without_leeway(token, t) == token.signed /\ token.exp >= t

\* jsonwebtoken::decode with Validation::default(): signature, then exp with leeway
verify(token, t) == token.signed /\ token.exp >= t - Leeway

get_expiration(token) == token.exp

-----------------------------------------------------------------------------
(* Requests                                                                *)

NoResult == [tag |-> "none", message |-> ""]
Ok == [tag |-> "Ok", message |-> ""]
AuthError(msg) == [tag |-> "AuthError", message |-> msg]
AuthorizedUser == [tag |-> "AuthorizedUser", message |-> ""]
TokenError(msg) == [tag |-> "TokenError", message |-> msg]
ValidationError(msg) == [tag |-> "ValidationError", message |-> msg]
DbError(msg) == [tag |-> "DbError", message |-> msg]
PasswordChangeSuccess == [tag |-> "PasswordChangeSuccess", message |-> ""]
\* the future of the handler was dropped: the caller gets no value
Cancelled == [tag |-> "Cancelled", message |-> ""]
\* Ok(result.rows_affected) of a delete
RowsAffected(n) == [tag |-> "Ok", message |-> "", rows_affected |-> n]

IdleCall ==
    [op |-> "none", pc |-> "idle", token |-> FakeToken, user |-> "", kind |-> "",
     now |-> 0, found |-> None, minted |-> None, after_revoke |-> FALSE,
     after_use |-> FALSE, credential |-> None, password |-> WeakPassword,
     snapshot |-> {}, revoke_ok |-> TRUE, cleanup |-> "none", result |-> NoResult,
     email |-> <<>>, current_user |-> None]

\* requests are anonymous: a new request takes the lowest free slot
Free(p) == /\ call[p].pc = "idle"
           /\ \A q \in Procs : q < p => call[q].pc # "idle"

Begin(op, token, user) ==
    [IdleCall EXCEPT !.op = op, !.token = token, !.user = user,
                     !.after_revoke = token \in revoked]

\* the handler of p returns: its response is recorded and p is free again
Return(p, c, result) ==
    /\ call' = [call EXCEPT ![p] = IdleCall]
    /\ last' = [c EXCEPT !.pc = "done", !.result = result]

Presentable == issued \cup {FakeToken}

\* the state with these accounts registered and nothing else stored
InitWith(registered) ==
    /\ now = 0
    /\ users = registered
    /\ user_row = [u \in AllUserIds |->
                      UserRow(RegisteredEmail(u), hash_password(StrongPassword), None)]
    /\ refresh_tokens = {}
    /\ verification_tokens = {}
    /\ issued = {}
    /\ vissued = {}
    /\ consumed = [v \in {} |-> 0]
    /\ revoked = {}
    /\ access_tokens = {}
    /\ authenticated = {}
    /\ call = [p \in Procs |-> IdleCall]
    /\ last = IdleCall

Init == InitWith(UserIds)

\* time passes, up to a limit
Clock(limit) ==
    /\ now < limit
    /\ now' = now + 1
    /\ last' = IdleCall
    /\ UNCHANGED <<user_row, access_tokens, authenticated, users, refresh_tokens, verification_tokens, issued, vissued, consumed, revoked, call>>

Tick == Clock(MaxTime)

-----------------------------------------------------------------------------
(* refresh_token.rs                                                        *)

\* a row that forgets the device description it was given
NewRefreshRowNoDevice(token, user_id, device_info) ==
    [id |-> token.jti, user_id |-> user_id, token_hash |-> hash_token(token),
     expires_at |-> get_expiration(token), device_info |-> None,
     created_at |-> now, last_used_at |-> None]

\* a row that keeps the raw token where its digest belongs
NewRefreshRowPlaintext(token, user_id, device_info) ==
    [id |-> token.jti, user_id |-> user_id, token_hash |-> token,
     expires_at |-> get_expiration(token), device_info |-> device_info,
     created_at |-> now, last_used_at |-> None]

\* the row create_refresh_token inserts
NewRefreshRow(token, user_id, device_info) ==
    [id |-> token.jti, user_id |-> user_id, token_hash |-> hash_token(token),
     expires_at |-> get_expiration(token), device_info |-> device_info,
     created_at |-> now, last_used_at |-> None]

\* create_refresh_token: generate, hash, insert, return the raw token
CreateRefreshToken(p, user_id, device_info) ==
    /\ Free(p)
    /\ Cardinality(issued) < MaxRefresh
    /\ LET token == generate_refresh_token(user_id) IN
        /\ refresh_tokens' = refresh_tokens \cup {NewRefreshRow(token, user_id, device_info)}
        /\ issued' = issued \cup {token}
        /\ Return(p, Begin("create_refresh_token", token, user_id), Ok)
    /\ UNCHANGED <<user_row, access_tokens, authenticated, now, users, verification_tokens, vissued, consumed, revoked>>

\* an insert that is not awaited and has not reached the table
InsertRefreshRowDetached(rows, row) == rows

\* refresh_token_model.insert(db): one INSERT statement, the whole row or nothing
InsertRefreshRow(rows, row) == rows \cup {row}

\* create_refresh_token cut at its await.  The transport may drop the future
\* while it waits: before the INSERT has run (CreateCancelledEarly) or after
\* it has (CreateCancelled).  CreateRefreshToken above is the same function
\* with the return placed at the INSERT, for the questions that do not look
\* at the time between the two.
CreateInsert(p, user_id, device_info) ==
    /\ Free(p)
    /\ FreshRefreshId <= MaxRefresh
    /\ LET token == generate_refresh_token(user_id)
           row == NewRefreshRow(token, user_id, device_info) IN
        /\ refresh_tokens' = InsertRefreshRow(refresh_tokens, row)
        /\ call' = [call EXCEPT ![p] =
               [Begin("create_refresh_token", token, user_id) EXCEPT
                   !.pc = "c_return", !.found = Some(row)]]
        /\ last' = IdleCall
    /\ UNCHANGED <<user_row, access_tokens, authenticated, now, users, verification_tokens, issued, vissued, consumed, revoked>>

\* Ok(token): the raw token reaches the caller
CreateReturn(p) ==
    /\ call[p].pc = "c_return"
    /\ issued' = issued \cup {call[p].token}
    /\ Return(p, call[p], Ok)
    /\ UNCHANGED <<user_row, access_tokens, authenticated, now, users, refresh_tokens, verification_tokens, vissued, consumed, revoked>>

\* the future is dropped after the INSERT has run: the row stays, no token is returned
CreateCancelled(p) ==
    /\ call[p].pc = "c_return"
    /\ Return(p, call[p], Cancelled)
    /\ UNCHANGED <<user_row, access_tokens, authenticated, now, users, refresh_tokens, verification_tokens, issued, vissued, consumed, revoked>>

\* the future is dropped before the INSERT has run: nothing was written
CreateCancelledEarly(p, user_id, device_info) ==
    /\ Free(p)
    /\ Return(p, Begin("create_refresh_token", FakeToken, user_id), Cancelled)
    /\ UNCHANGED <<user_row, access_tokens, authenticated, now, users, refresh_tokens, verification_tokens, issued, vissued, consumed, revoked>>

\* a lookup by hash alone, which forgets the expiry filter
RowsByHashOnly(rows, token_hash, t) ==
    {r \in rows : r.token_hash = token_hash}

\* a lookup that accepts a row at the instant it expires
ValidRowsAtExpiry(rows, token_hash, t) ==
    {r \in rows : r.token_hash = token_hash /\ r.expires_at >= t}

\* the rows the lookup of validate_refresh_token matches
ValidRows(rows, token_hash, t) ==
    {r \in rows : r.token_hash = token_hash /\ r.expires_at > t}

\* a lookup that tells a caller whether the token was unknown or had expired
LookupMissErrorDistinct(rows, token_hash) ==
    IF \E r \in rows : r.token_hash = token_hash
    THEN AuthError("Refresh token expired")
    ELSE AuthError("Refresh token not found")

\* the error of validate_refresh_token when .one() finds no row: one message,
\* whatever else the table holds
LookupMissError(rows, token_hash) == AuthError("Invalid or expired refresh token")

\* validate_refresh_token up to its first await: hash, now, find .one()
ValidateLookup(p, op, token) ==
    /\ Free(p)
    /\ LET c == [Begin(op, token, "") EXCEPT !.now = now]
           rows == ValidRows(refresh_tokens, hash_token(token), now) IN
        \/ /\ rows = {}
           /\ Return(p, c, LookupMissError(refresh_tokens, hash_token(token)))
        \/ /\ \E r \in rows :
                 call' = [call EXCEPT ![p] = [c EXCEPT !.pc = "v_update", !.found = Some(r)]]
           /\ last' = IdleCall
    /\ UNCHANGED <<user_row, access_tokens, authenticated, now, users, refresh_tokens, verification_tokens, issued, vissued, consumed, revoked>>

\* a write that saves the row read, inserting it when it is gone
TouchRowUpsert(rows, row, t) ==
    {r \in rows : r.id # row.id} \cup {[row EXCEPT !.last_used_at = Some(t)]}

\* a write that also renews the lifetime of the session
TouchRowRenewing(rows, row, t) ==
    {IF r.id = row.id
     THEN [r EXCEPT !.last_used_at = Some(t), !.expires_at = t + RefreshTokenExpiration]
     ELSE r : r \in rows}

\* UPDATE refresh_tokens SET last_used_at = t WHERE id = row.id
TouchRow(rows, row, t) ==
    {IF r.id = row.id THEN [r EXCEPT !.last_used_at = Some(t)] ELSE r : r \in rows}

\* an update that also requires the row to be as it was read
RowUnchanged(rows, row) == row \in rows

\* the row with this primary key is still there
RowExists(rows, row) == \E r \in rows : r.id = row.id

\* the rest of validate_refresh_token: write last_used_at, return the row read
ValidateUpdate(p) ==
    /\ call[p].pc = "v_update"
    /\ LET row == Unwrap(call[p].found) IN
        /\ refresh_tokens' = TouchRow(refresh_tokens, row, call[p].now)
        /\ IF RowExists(refresh_tokens, row)
           THEN IF call[p].op = "refresh_access_token"
                THEN /\ call' = [call EXCEPT ![p].pc = "get_user", ![p].now = 0]
                     /\ last' = IdleCall
                ELSE Return(p, call[p], Ok)
           ELSE Return(p, call[p], AuthError("None of the records are updated"))
    /\ UNCHANGED <<user_row, access_tokens, authenticated, now, users, verification_tokens, issued, vissued, consumed, revoked>>

\* a revoke that deletes every session of the token's owner
DeleteSessionsOfOwner(rows, token_hash) ==
    {r \in rows : \A m \in rows : m.token_hash = token_hash => r.user_id # m.user_id}

\* DELETE FROM refresh_tokens WHERE token_hash = hash
DeleteByHash(rows, token_hash) == {r \in rows : r.token_hash # token_hash}

\* a revoke-all whose delete has lost its filter
DeleteEveryUser(rows, user_id) == {}

\* DELETE FROM refresh_tokens WHERE user_id = user_id
DeleteByUser(rows, user_id) == {r \in rows : r.user_id # user_id}

\* a cleanup that also sweeps the rows expiring at this very instant and later
\* within the next tick
DeleteExpiringSoon(rows, t) == {r \in rows : ~(r.expires_at <= t + 1)}

\* DELETE FROM refresh_tokens WHERE expires_at < t
DeleteExpired(rows, t) == {r \in rows : ~(r.expires_at < t)}

\* a revoke that reports a delete of no row as an error
RevokeResultStrict(rows_affected) ==
    IF rows_affected = 0 THEN AuthError("RecordNotFound") ELSE Ok

\* what revoke and revoke-all answer once the delete has run: the number of
\* rows deleted is not looked at
RevokeResult(rows_affected) == Ok

\* revoke_refresh_token
RevokeRefreshToken(p, token) ==
    /\ Free(p)
    /\ refresh_tokens' = DeleteByHash(refresh_tokens, hash_token(token))
    /\ revoked' = revoked \cup ({token} \cap issued)
    /\ Return(p, Begin("revoke_refresh_token", token, ""),
              RevokeResult(Cardinality(refresh_tokens \ refresh_tokens')))
    /\ UNCHANGED <<user_row, access_tokens, authenticated, now, users, verification_tokens, issued, vissued, consumed>>

\* revoke_all_refresh_tokens
RevokeAllRefreshTokens(p, user_id) ==
    /\ Free(p)
    /\ refresh_tokens' = DeleteByUser(refresh_tokens, user_id)
    /\ Return(p, Begin("revoke_all_refresh_tokens", FakeToken, user_id),
              RevokeResult(Cardinality(refresh_tokens \ refresh_tokens')))
    /\ UNCHANGED <<user_row, access_tokens, authenticated, now, users, verification_tokens, issued, vissued, consumed, revoked>>

\* cleanup_expired_tokens
CleanupExpiredTokens(p) ==
    /\ Free(p)
    /\ refresh_tokens' = DeleteExpired(refresh_tokens, now)
    /\ Return(p, [Begin("cleanup_expired_tokens", FakeToken, "") EXCEPT !.now = now],
              RowsAffected(Cardinality(refresh_tokens \ refresh_tokens')))
    /\ UNCHANGED <<user_row, access_tokens, authenticated, now, users, verification_tokens, issued, vissued, consumed, revoked>>

-----------------------------------------------------------------------------
(* verification_token/service.rs                                           *)

\* a raw token no create_token returned
FakeVToken == [uuid |-> 0]

\* SHA-256 in hex (the private hash_token of service.rs)
vt_hash_token(raw) == [sha256_hex |-> raw]

\* the lifetimes the callers of create_token pass, in clock ticks
EmailVerificationTtl == 2
PasswordResetTtl == 1
ExpiresIn(kind) == IF kind = "EmailVerification" THEN EmailVerificationTtl ELSE PasswordResetTtl

VPresentable == {v.raw : v \in vissued} \cup {FakeVToken}

\* create_token: a fresh uuid, its hash stored with kind and expiry
CreateToken(p, user_id, kind, expires_in) ==
    /\ Free(p)
    /\ Cardinality(vissued) < MaxVerification
    /\ LET raw_token == [uuid |-> Cardinality(vissued) + 1]
           record == [id |-> raw_token.uuid, user_id |-> user_id,
                      token_hash |-> vt_hash_token(raw_token), kind |-> kind,
                      expires_at |-> now + expires_in, used_at |-> None] IN
        /\ verification_tokens' = verification_tokens \cup {record}
        /\ vissued' = vissued \cup {[raw |-> raw_token, user_id |-> user_id, kind |-> kind,
                                     expires_at |-> now + expires_in,
                                     email |-> user_row[user_id].email]}
        /\ consumed' = [v \in DOMAIN consumed \cup {raw_token} |->
                           IF v = raw_token THEN 0 ELSE consumed[v]]
        /\ Return(p, [Begin("create_token", raw_token, user_id) EXCEPT !.kind = kind], Ok)
    /\ UNCHANGED <<user_row, access_tokens, authenticated, now, users, refresh_tokens, issued, revoked>>

\* a lookup by hash alone
AnyKindRows(rows, token_hash, kind) ==
    {r \in rows : r.token_hash = token_hash}

\* the rows the lookup of validate_token matches: by hash and by kind
KindRows(rows, token_hash, kind) ==
    {r \in rows : r.token_hash = token_hash /\ r.kind = kind}

\* the same checks with the expiry looked at first
CheckRowExpiryFirst(record, t) ==
    IF record.expires_at < t THEN TokenError("Token expired")
    ELSE IF IsSome(record.used_at) THEN TokenError("Token already used")
    ELSE Ok

\* checks that forget the used_at test
CheckRowExpiryOnly(record, t) ==
    IF record.expires_at < t THEN TokenError("Token expired") ELSE Ok

\* the checks validate_token makes on the row it found, in the code's order
CheckRow(record, t) ==
    IF IsSome(record.used_at) THEN TokenError("Token already used")
    ELSE IF record.expires_at < t THEN TokenError("Token expired")
    ELSE Ok

\* the kind a raw token was created with
CreatedAs(raw_token) == {v.kind : v \in {w \in vissued : w.raw = raw_token}}

\* the error of validate_token as its caller returns it: reset_password and
\* verify_email wrap the message in an AuthError
TokenFailure(c, err) ==
    IF c.op \in {"reset_password", "verify_email"} THEN AuthError(err.message) ELSE err

\* the handler record of a call that starts with validate_token
BeginValidateToken(op, raw_token, kind, password) ==
    [Begin(op, raw_token, "") EXCEPT
        !.kind = kind, !.now = now, !.password = password,
        !.after_use = IF raw_token \in DOMAIN consumed
                      THEN consumed[raw_token] > 0 ELSE FALSE]

\* validate_token up to the write: hash, find .one(), used and expiry checks
TokenLookup(p, c) ==
    /\ Free(p)
    /\ LET rows == KindRows(verification_tokens, vt_hash_token(c.token), c.kind) IN
        \/ /\ rows = {}
           /\ Return(p, c, TokenFailure(c, TokenError("Invalid or expired token")))
        \/ \E record \in rows :
              IF CheckRow(record, now) = Ok
              THEN /\ call' = [call EXCEPT ![p] =
                         [c EXCEPT !.pc = "vt_update", !.found = Some(record)]]
                   /\ last' = IdleCall
              ELSE Return(p, c, TokenFailure(c, CheckRow(record, now)))
    /\ UNCHANGED <<user_row, access_tokens, authenticated, now, users, refresh_tokens, verification_tokens, issued, vissued,
                   consumed, revoked>>

\* validate_token called on its own
ValidateTokenLookup(p, raw_token, kind) ==
    TokenLookup(p, BeginValidateToken("validate_token", raw_token, kind, WeakPassword))

\* reset_password up to the write of validate_token(PasswordReset)
ResetPasswordLookup(p, raw_token, new_password) ==
    TokenLookup(p, BeginValidateToken("reset_password", raw_token, "PasswordReset", new_password))

\* a verify_email that asks validate_token for a password-reset token
VerifyEmailLookupReset(p, raw_token) ==
    TokenLookup(p, BeginValidateToken("verify_email", raw_token, "PasswordReset", WeakPassword))

\* verify_email up to the write of validate_token(EmailVerification)
VerifyEmailLookup(p, raw_token) ==
    TokenLookup(p, BeginValidateToken("verify_email", raw_token, "EmailVerification", WeakPassword))

\* UPDATE verification_tokens SET used_at = t WHERE id = row.id
MarkUsed(rows, row, t) ==
    {IF r.id = row.id THEN [r EXCEPT !.used_at = Some(t)] ELSE r : r \in rows}

\* the rest of validate_token: write used_at, return the row read; then, in
\* reset_password, the validation of the new password as a users row, and in
\* verify_email the update of the owner of the row
ValidateTokenUpdate(p) ==
    /\ call[p].pc = "vt_update"
    /\ LET c == call[p]
           row == Unwrap(c.found) IN
        /\ verification_tokens' = MarkUsed(verification_tokens, row, c.now)
        /\ IF ~RowExists(verification_tokens, row)
           THEN /\ consumed' = consumed
                /\ Return(p, c, TokenFailure(c, TokenError("None of the records are updated")))
           ELSE /\ consumed' = [consumed EXCEPT ![c.token] = @ + 1]
                /\ IF c.op = "validate_token"
                   THEN Return(p, c, Ok)
                   ELSE IF c.op = "verify_email"
                   THEN /\ call' = [call EXCEPT ![p].pc = "verify_update",
                                                ![p].user = row.user_id, ![p].found = None]
                        /\ last' = IdleCall
                   ELSE IF ~c.password.argon2_prefix
                   THEN Return(p, c, ValidationError(
                            "Password must be hashed with Argon2 before database storage"))
                   ELSE /\ call' = [call EXCEPT ![p].pc = "update_password",
                                                ![p].user = row.user_id, ![p].found = None]
                        /\ last' = IdleCall
    /\ UNCHANGED <<user_row, access_tokens, authenticated, now, users, refresh_tokens, issued, vissued, revoked>>

\* cleanup_expired: DELETE FROM verification_tokens WHERE expires_at < now
CleanupExpired(p) ==
    /\ Free(p)
    /\ verification_tokens' = DeleteExpired(verification_tokens, now)
    /\ Return(p, Begin("cleanup_expired", FakeVToken, ""), Ok)
    /\ UNCHANGED <<user_row, access_tokens, authenticated, now, users, refresh_tokens, issued, vissued, consumed, revoked>>

-----------------------------------------------------------------------------
(* authenticator.rs, token.rs                                              *)

\* Token::get_user_id: the subject of a token that verifies
get_user_id(token, t) ==
    IF verify(token, t) THEN Some(token.sub) ELSE None

\* generate_token: the access token minted for a user
AccessTokenExpiration == 1
generate_token(user_id) ==
    [iss |-> "host", sub |-> user_id, exp |-> now + AccessTokenExpiration,
     iat |-> now, signed |-> TRUE]

\* the access tokens the model lets callers hold at once
MaxAccess == 2

\* the clock of the requests that authenticate: it runs until an access token
\* minted at time 0 no longer verifies
MaxAuthTime == AccessTokenExpiration + Leeway + 1
TickAuth == Clock(MaxAuthTime)

BadCredentials(msg) == [tag |-> "BadCredentials", message |-> msg]
AuthenticationError(msg) == [tag |-> "AuthenticationError", message |-> msg]
Authenticated(user_id) == [tag |-> "Authenticated", message |-> "", user |-> user_id]

\* Uuid::parse_str on the subject of the claims
IsUuid(sub) == sub \in AllUserIds

\* the error jsonwebtoken::decode reports: a string that is no token of this
\* server, or a token of this server past its exp
decode_error(token) == IF token.signed THEN "ExpiredSignature" ELSE "InvalidToken"

\* a get_user that reads the claims without checking exp
get_user_ignoring_exp(token, t, rows) ==
    IF ~token.signed THEN BadCredentials(decode_error(token))
    ELSE IF ~IsUuid(token.sub) THEN BadCredentials("Invalid user ID in token")
    ELSE IF token.sub \notin rows THEN BadCredentials("User not found")
    ELSE Authenticated(token.sub)

\* a get_user that remembers the tokens it has accepted and skips the lookup
\* of the user for them
get_user_cached(token, t, rows) ==
    IF ~verify(token, t) THEN BadCredentials(decode_error(token))
    ELSE IF ~IsUuid(token.sub) THEN BadCredentials("Invalid user ID in token")
    ELSE IF token.sub \notin rows /\ token \notin authenticated
    THEN BadCredentials("User not found")
    ELSE Authenticated(token.sub)

\* a get_user that accepts a token only while its user has a session
get_user_with_session(token, t, rows) ==
    IF ~verify(token, t) THEN BadCredentials(decode_error(token))
    ELSE IF ~IsUuid(token.sub) THEN BadCredentials("Invalid user ID in token")
    ELSE IF token.sub \notin rows THEN BadCredentials("User not found")
    ELSE IF \A r \in refresh_tokens : r.user_id # token.sub
    THEN BadCredentials("Session revoked")
    ELSE Authenticated(token.sub)

\* authenticator::get_user: the subject of the decoded token, then the row of
\* the users table with that id
get_user(token, t, rows) ==
    IF ~verify(token, t) THEN BadCredentials(decode_error(token))
    ELSE IF ~IsUuid(token.sub) THEN BadCredentials("Invalid user ID in token")
    ELSE IF token.sub \notin rows THEN BadCredentials("User not found")
    ELSE Authenticated(token.sub)

\* RequiresAuth::require_authenticate_as_user: the Token of the request
\* context, if the request carried one, then get_user
require_authenticate_as_user(credential, t, rows) ==
    IF ~IsSome(credential) THEN AuthenticationError("Token not found")
    ELSE LET r == get_user(Unwrap(credential), t, rows) IN
         IF r.tag = "BadCredentials" THEN AuthenticationError(r.message) ELSE r

\* what a request can carry as its bearer credential: nothing, a string that
\* is no token, or a token this server has handed out
Credentials == {None} \cup {Some(t) : t \in access_tokens \cup issued \cup {FakeToken}}

\* the token a request carried, for the record of the call
Carried(credential) == IF IsSome(credential) THEN Unwrap(credential) ELSE FakeToken

\* a resolver that only authenticates: require_authenticate_as_user and the answer
Authenticate(p, credential) ==
    /\ Free(p)
    /\ LET c == [Begin("require_authenticate_as_user", Carried(credential), "")
                    EXCEPT !.credential = credential, !.now = now]
           r == require_authenticate_as_user(credential, now, users) IN
        /\ authenticated' = IF r.tag = "Authenticated"
                             THEN authenticated \cup {Unwrap(credential)}
                             ELSE authenticated
        /\ Return(p, c, r)
    /\ UNCHANGED <<now, users, user_row, refresh_tokens, verification_tokens, issued, vissued,
                   consumed, revoked, access_tokens>>

\* create_access_token of the tests: generate_token for a user that has a row
IssueAccessToken(user_id) ==
    /\ user_id \in users
    /\ Cardinality(access_tokens \cup {generate_token(user_id)}) <= MaxAccess
    /\ access_tokens' = access_tokens \cup {generate_token(user_id)}
    /\ last' = IdleCall
    /\ UNCHANGED <<now, users, user_row, refresh_tokens, verification_tokens, issued, vissued,
                   consumed, revoked, authenticated, call>>

\* TOKEN_SECRET of the server that decodes, and the keys a token may have
\* been signed with
secret == "secret"
Secrets == {"secret", "wrong_secret"}

\* TOKEN_EXPIRATION_SECONDS: the lifetimes a deployment may configure
Ttls == {1, 2}
MaxTtl == CHOOSE n \in Ttls : \A m \in Ttls : m <= n

\* the Claims generate_token fills in at time t for a lifetime ttl
MintedClaims(sub, t, ttl) == [iss |-> "host", sub |-> sub, exp |-> t + ttl, iat |-> t]

\* jsonwebtoken::encode: the claims under a signature, which verifies under
\* TOKEN_SECRET exactly when it was made with it
encode(claims, key) ==
    [iss |-> claims.iss, sub |-> claims.sub, exp |-> claims.exp, iat |-> claims.iat,
     signed |-> key = secret]

\* the claims a token carries
ClaimsOf(token) == [iss |-> token.iss, sub |-> token.sub, exp |-> token.exp, iat |-> token.iat]

DecodeError(msg) == [tag |-> "Err", message |-> msg]

\* Token::get_claims: verify, then the claims of the token data
get_claims(token, t) ==
    IF verify(token, t) THEN Ok ELSE DecodeError(decode_error(token))

\* a token is minted under some key with some lifetime
Encode(sub, key, ttl) ==
    /\ Cardinality(access_tokens \cup {encode(MintedClaims(sub, now, ttl), key)}) <= MaxAccess
    /\ access_tokens' = access_tokens \cup {encode(MintedClaims(sub, now, ttl), key)}
    /\ last' = IdleCall
    /\ UNCHANGED <<now, users, user_row, refresh_tokens, verification_tokens, issued, vissued,
                   consumed, revoked, authenticated, call>>

\* Token::new(token).get_claims() at the present time
GetClaims(token) ==
    /\ last' = [IdleCall EXCEPT !.op = "get_claims", !.pc = "done", !.token = token,
                                !.now = now,
                                !.found = IF verify(token, now) THEN Some(ClaimsOf(token)) ELSE None,
                                !.result = get_claims(token, now)]
    /\ UNCHANGED <<now, users, user_row, refresh_tokens, verification_tokens, issued, vissued,
                   consumed, revoked, access_tokens, authenticated, call>>

\* the clock of the decoder: it runs until the longest-lived token minted at
\* time 0 no longer verifies
MaxTokenTime == MaxTtl + Leeway + 1
TickToken == Clock(MaxTokenTime)

\* a header of the HTTP request: absent, bytes that HeaderValue::to_str
\* rejects (anything but visible ASCII), or text
AbsentHeader == [present |-> FALSE, text |-> FALSE, value |-> FakeToken, pairs |-> <<>>]
OpaqueHeader == [present |-> TRUE, text |-> FALSE, value |-> FakeToken, pairs |-> <<>>]

\* Authorization: <token>, with or without the Bearer prefix that
\* Token::get_token_string strips
AuthorizationOf(token) == [present |-> TRUE, text |-> TRUE, value |-> token, pairs |-> <<>>]

\* cookie: a list of name=value pairs separated by ';'
CookieOf(pairs) == [present |-> TRUE, text |-> TRUE, value |-> FakeToken, pairs |-> pairs]
OtherCookie == [name |-> "theme", value |-> FakeToken]
AccessCookie(token) == [name |-> "access_token", value |-> token]

AuthorizationHeaders(tokens) ==
    {AbsentHeader, OpaqueHeader} \cup {AuthorizationOf(t) : t \in tokens}
CookieHeaders(tokens) ==
    {AbsentHeader, OpaqueHeader, CookieOf(<<OtherCookie>>)}
        \cup {CookieOf(<<AccessCookie(t)>>) : t \in tokens}
        \cup {CookieOf(<<OtherCookie, AccessCookie(t)>>) : t \in tokens}

\* the positions of the cookie pairs that start with "access_token="
AccessPairs(cookie) ==
    {i \in 1..Len(cookie.pairs) : cookie.pairs[i].name = "access_token"}

\* main.rs get_token_from_request: the Authorization header if it is there and
\* is text, else the first access_token pair of the cookie header if that is
\* there and is text, else nothing
get_token_from_request(authorization, cookie) ==
    IF authorization.present /\ authorization.text
    THEN Some(authorization.value)
    ELSE IF cookie.present /\ cookie.text /\ AccessPairs(cookie) # {}
    THEN Some(cookie.pairs[CHOOSE i \in AccessPairs(cookie) :
                               \A j \in AccessPairs(cookie) : i <= j].value)
    ELSE None

\* main.rs index: the token of the request, if any, becomes data of the
\* GraphQL request, and a resolver that requires a user looks for it there
Index(p, authorization, cookie) ==
    Authenticate(p, get_token_from_request(authorization, cookie))

\* cleanup_test_user: DELETE FROM users WHERE id = user_id, for a user no
\* other table refers to
DeleteUser(user_id) ==
    /\ user_id \in users
    /\ \A r \in refresh_tokens \cup verification_tokens : r.user_id # user_id
    /\ users' = users \ {user_id}
    /\ last' = IdleCall
    /\ UNCHANGED <<now, user_row, refresh_tokens, verification_tokens, issued, vissued,
                   consumed, revoked, access_tokens, authenticated, call>>

-----------------------------------------------------------------------------
(* mutations/users/logout.rs, refresh_access_token.rs                      *)

\* logout up to its first await: revoke_refresh_token
LogoutRevoke(p, token) ==
    /\ Free(p)
    /\ refresh_tokens' = DeleteByHash(refresh_tokens, hash_token(token))
    /\ LET c == Begin("logout", token, "")
           r == RevokeResult(Cardinality(refresh_tokens \ refresh_tokens')) IN
        IF r = Ok
        THEN /\ call' = [call EXCEPT ![p] = [c EXCEPT !.pc = "cleanup"]]
             /\ last' = IdleCall
        ELSE Return(p, c, r)
    /\ UNCHANGED <<user_row, access_tokens, authenticated, now, users, verification_tokens, issued, vissued, consumed, revoked>>

\* a refresh that rotates: the record of the token presented is deleted once
\* the new access token is minted
RefreshGetUserRotating(p) ==
    /\ call[p].pc = "get_user"
    /\ LET c == call[p]
           id == get_user_id(c.token, now) IN
        IF ~IsSome(id)
        THEN /\ Return(p, c, AuthError("ExpiredSignature"))
             /\ UNCHANGED refresh_tokens
        ELSE /\ refresh_tokens' = DeleteByHash(refresh_tokens, hash_token(c.token))
             /\ call' = [call EXCEPT ![p].pc = "cleanup", ![p].found = None,
                                     ![p].minted = Some(generate_token(Unwrap(id)))]
             /\ last' = IdleCall
    /\ UNCHANGED <<user_row, access_tokens, authenticated, now, users, verification_tokens, issued, vissued, consumed, revoked>>

\* a refresh that mints for the subject of the token without looking the
\* user up
RefreshGetUserNoLookup(p) ==
    /\ call[p].pc = "get_user"
    /\ LET c == call[p]
           id == get_user_id(c.token, now) IN
        IF ~IsSome(id)
        THEN Return(p, c, AuthError("ExpiredSignature"))
        ELSE /\ call' = [call EXCEPT ![p].pc = "cleanup", ![p].found = None,
                                     ![p].minted = Some(generate_token(Unwrap(id)))]
             /\ last' = IdleCall
    /\ UNCHANGED <<user_row, access_tokens, authenticated, now, users, refresh_tokens, verification_tokens, issued, vissued, consumed, revoked>>

\* refresh_access_token after validate_refresh_token: get_user on the refresh
\* token itself, the owner check, the new access token
RefreshGetUser(p) ==
    /\ call[p].pc = "get_user"
    /\ LET c == call[p]
           id == get_user_id(c.token, now) IN
        IF ~IsSome(id)
        THEN Return(p, c, AuthError("ExpiredSignature"))
        ELSE IF Unwrap(id) \notin users
        THEN Return(p, c, AuthError("User not found"))
        ELSE IF Unwrap(c.found).user_id # Unwrap(id)
        THEN Return(p, c, AuthError("Refresh token does not belong to the authenticated user"))
        ELSE /\ call' = [call EXCEPT ![p].pc = "cleanup", ![p].found = None,
                                     ![p].minted = Some(generate_token(Unwrap(id)))]
             /\ last' = IdleCall
    /\ UNCHANGED <<user_row, access_tokens, authenticated, now, users, refresh_tokens, verification_tokens, issued, vissued, consumed, revoked>>

-----------------------------------------------------------------------------
(* mutations/users/sign_in.rs, sign_up.rs, logout_all_devices.rs,          *)
(* change_password.rs, reset_password.rs                                   *)

\* configuration of the deployment: ctx.data::<EmailService>() is there
EmailServiceConfigured == TRUE

\* the sign-ins and sign-ups in flight that have not yet drawn their refresh token
AwaitingSession == {q \in Procs : call[q].pc \in {"create_user", "session_create"}}

\* room under MaxRefresh for one more handler that creates a session
CanStartSession == FreshRefreshId + Cardinality(AwaitingSession) <= MaxRefresh

\* the refresh-token rows of a user
SessionsOf(rows, user_id) == {r \in rows : r.user_id = user_id}

\* the email column of a users row, as its characters
EmailOf(user_id) == user_row[user_id].email

\* Column::Email.contains(email): email LIKE '%' || input || '%'
contains(haystack, needle) ==
    \E i \in 0..(Len(haystack) - Len(needle)) :
        SubSeq(haystack, i + 1, i + Len(needle)) = needle

\* a lookup that compares the whole email
EmailEq(haystack, needle) == haystack = needle

\* the rows find_by_email_contains can return with .one()
find_by_email_for_login(rows, email) == {u \in rows : contains(EmailOf(u), email)}

\* sign_in up to create_refresh_token: input.validate (a password is never
\* empty here), find_by_email_for_login and the password check; the record
\* of the call keeps the sessions the user had when it was found
SignInFind(p, email, password) ==
    /\ Free(p)
    /\ CanStartSession
    /\ LET c == [Begin("sign_in", FakeToken, "") EXCEPT !.password = password, !.now = now]
           found == find_by_email_for_login(users, email) IN
        IF email = <<>>
        THEN Return(p, c, ValidationError("email cannot be empty"))
        ELSE IF found = {}
        THEN Return(p, c, ValidationError("Email or password incorrect"))
        ELSE \E user \in found :
                IF ~verify_password(password, user_row[user].password)
                THEN Return(p, [c EXCEPT !.user = user],
                            ValidationError("Email or password incorrect"))
                ELSE /\ call' = [call EXCEPT ![p] =
                           [c EXCEPT !.pc = "session_create", !.user = user,
                                     !.snapshot = SessionsOf(refresh_tokens, user)]]
                     /\ last' = IdleCall
    /\ UNCHANGED <<now, users, user_row, refresh_tokens, verification_tokens, issued, vissued,
                   consumed, revoked, access_tokens, authenticated>>

\* sign_up in single-user mode up to its count of the users: input.validate,
\* then UserRepository::count(db).await.unwrap_or(0), a failed count being
\* taken for no user, and the gate on it
SignUpCount(p, password) ==
    /\ Free(p)
    /\ CanStartSession
    /\ LET c == [Begin("sign_up", FakeToken, "") EXCEPT !.password = password, !.now = now] IN
        IF ~password.strong
        THEN Return(p, c, ValidationError("password"))
        ELSE \E ok \in BOOLEAN :
                LET count == IF ok THEN Cardinality(users) ELSE 0 IN
                IF count >= 1
                THEN Return(p, c, AuthError("Registration is disabled"))
                ELSE /\ call' = [call EXCEPT ![p] = [c EXCEPT !.pc = "create_user"]]
                     /\ last' = IdleCall
    /\ UNCHANGED <<now, users, user_row, refresh_tokens, verification_tokens, issued, vissued,
                   consumed, revoked, access_tokens, authenticated>>

\* UserDao::insert: INSERT INTO users
InsertUser(rows, id) == rows \cup {id}

\* sign_up in single-user mode after the gate: the hash, then
\* UserRepository::create with a fresh id
SignUpInsert(p, id) ==
    /\ call[p].pc = "create_user"
    /\ id \notin users
    /\ users' = InsertUser(users, id)
    /\ user_row' = [user_row EXCEPT ![id] =
                        UserRow(RegisteredEmail(id), hash_password(call[p].password), None)]
    /\ call' = [call EXCEPT ![p].pc = "session_create", ![p].user = id]
    /\ last' = IdleCall
    /\ UNCHANGED <<now, refresh_tokens, verification_tokens, issued, vissued, consumed, revoked,
                   access_tokens, authenticated>>

\* sign_up without single-user mode, up to create_refresh_token:
\* input.validate, the hash, UserRepository::create with a fresh id
SignUpCreateUser(p, id, password) ==
    /\ Free(p)
    /\ CanStartSession
    /\ id \notin users
    /\ LET c == [Begin("sign_up", FakeToken, id) EXCEPT !.password = password, !.now = now] IN
        IF ~password.strong
        THEN /\ Return(p, c, ValidationError("password"))
             /\ UNCHANGED <<users, user_row>>
        ELSE /\ users' = users \cup {id}
             /\ user_row' = [user_row EXCEPT ![id] =
                                UserRow(RegisteredEmail(id), hash_password(password), None)]
             /\ call' = [call EXCEPT ![p] = [c EXCEPT !.pc = "session_create"]]
             /\ last' = IdleCall
    /\ UNCHANGED <<now, refresh_tokens, verification_tokens, issued, vissued, consumed, revoked,
                   access_tokens, authenticated>>

\* a sign-in that keeps one session for each user: the new record replaces
\* the records the user had
SessionCreateSingle(p) ==
    /\ call[p].pc = "session_create"
    /\ LET token == generate_refresh_token(call[p].user) IN
        /\ refresh_tokens' = InsertRefreshRow(DeleteByUser(refresh_tokens, call[p].user),
                                              NewRefreshRow(token, call[p].user, None))
        /\ call' = [call EXCEPT ![p].pc = "cleanup", ![p].token = token]
        /\ last' = IdleCall
    /\ UNCHANGED <<now, users, user_row, verification_tokens, issued, vissued, consumed, revoked,
                   access_tokens, authenticated>>

\* create_refresh_token(db, user.id, None) of sign_in and sign_up
SessionCreate(p) ==
    /\ call[p].pc = "session_create"
    /\ LET token == generate_refresh_token(call[p].user) IN
        /\ refresh_tokens' = InsertRefreshRow(refresh_tokens, NewRefreshRow(token, call[p].user, None))
        /\ call' = [call EXCEPT ![p].pc = "cleanup", ![p].token = token]
        /\ last' = IdleCall
    /\ UNCHANGED <<now, users, user_row, verification_tokens, issued, vissued, consumed, revoked,
                   access_tokens, authenticated>>

\* a logout_all_devices that reads the subject of its token without checking
\* the expiry
LogoutAllGetUserUnchecked(p, access_token) ==
    /\ Free(p)
    /\ LET c == [Begin("logout_all_devices", access_token, "")
                    EXCEPT !.credential = Some(access_token), !.now = now]
           r == get_user_ignoring_exp(access_token, now, users) IN
        IF r.tag = "Authenticated"
        THEN /\ call' = [call EXCEPT ![p] = [c EXCEPT !.pc = "revoke_all", !.user = r.user]]
             /\ last' = IdleCall
        ELSE Return(p, c, AuthError(r.message))
    /\ UNCHANGED <<now, users, user_row, refresh_tokens, verification_tokens, issued, vissued,
                   consumed, revoked, access_tokens, authenticated>>

\* logout_all_devices up to revoke_all_refresh_tokens: get_user on the access
\* token passed as argument
LogoutAllGetUser(p, access_token) ==
    /\ Free(p)
    /\ LET c == [Begin("logout_all_devices", access_token, "")
                    EXCEPT !.credential = Some(access_token), !.now = now]
           r == get_user(access_token, now, users) IN
        IF r.tag = "Authenticated"
        THEN /\ call' = [call EXCEPT ![p] = [c EXCEPT !.pc = "revoke_all", !.user = r.user]]
             /\ last' = IdleCall
        ELSE Return(p, c, AuthError(r.message))
    /\ UNCHANGED <<now, users, user_row, refresh_tokens, verification_tokens, issued, vissued,
                   consumed, revoked, access_tokens, authenticated>>

\* revoke_all_refresh_tokens(db, user.id) of logout_all_devices
LogoutAllRevoke(p) ==
    /\ call[p].pc = "revoke_all"
    /\ refresh_tokens' = DeleteByUser(refresh_tokens, call[p].user)
    /\ call' = [call EXCEPT ![p].pc = "cleanup"]
    /\ last' = IdleCall
    /\ UNCHANGED <<now, users, user_row, verification_tokens, issued, vissued, consumed, revoked,
                   access_tokens, authenticated>>

\* the checks of change_password between authentication and the update, in
\* the code's order, on the user row that authentication read
CheckNewPassword(current_password, new_password, stored_hash) ==
    IF ~new_password.strong THEN ValidationError("new_password")
    ELSE IF current_password = new_password
    THEN ValidationError("New password must be different from current password")
    ELSE IF ~verify_password(current_password, stored_hash)
    THEN ValidationError("Current password is incorrect")
    ELSE IF ~new_password.argon2_prefix
    THEN ValidationError("Password must be hashed with Argon2 before database storage")
    ELSE IF verify_password(new_password, stored_hash)
    THEN ValidationError("New password must be different from current password")
    ELSE Ok

\* change_password up to update_password: require_authenticate_as_user, then
\* the checks of the input
ChangePasswordAuth(p, credential, current_password, new_password) ==
    /\ Free(p)
    /\ LET c == [Begin("change_password", Carried(credential), "")
                    EXCEPT !.credential = credential, !.password = new_password, !.now = now]
           r == require_authenticate_as_user(credential, now, users) IN
        IF r.tag # "Authenticated"
        THEN Return(p, c, AuthError(r.message))
        ELSE LET v == CheckNewPassword(current_password, new_password,
                                       user_row[r.user].password) IN
             IF v # Ok
             THEN Return(p, c, v)
             ELSE /\ call' = [call EXCEPT ![p] =
                         [c EXCEPT !.pc = "update_password", !.user = r.user]]
                  /\ last' = IdleCall
    /\ UNCHANGED <<now, users, user_row, refresh_tokens, verification_tokens, issued, vissued,
                   consumed, revoked, access_tokens, authenticated>>

\* UserRepository::update_password and the Users::update of reset_password:
\* UPDATE users SET password, updated_at WHERE id = user_id
UpdatePassword(p) ==
    /\ call[p].pc = "update_password"
    /\ LET c == call[p] IN
        IF c.user \notin users
        THEN /\ Return(p, c, DbError("None of the records are updated"))
             /\ user_row' = user_row
        ELSE /\ user_row' = [user_row EXCEPT ![c.user].password = hash_password(c.password),
                                             ![c.user].updated_at = Some(now)]
             /\ call' = [call EXCEPT ![p].pc = "password_revoke",
                                     ![p].snapshot = SessionsOf(refresh_tokens, c.user)]
             /\ last' = IdleCall
    /\ UNCHANGED <<now, users, refresh_tokens, verification_tokens, issued, vissued, consumed,
                   revoked, access_tokens, authenticated>>

\* verify_email after validate_token: UPDATE users SET email_verified_at = now
\* WHERE id = record.user_id
EmailVerifySuccess(msg) == [tag |-> "EmailVerifySuccess", message |-> msg]
VerifyEmailUpdate(p) ==
    /\ call[p].pc = "verify_update"
    /\ LET c == call[p] IN
        IF c.user \notin users
        THEN /\ Return(p, c, DbError("None of the records are updated"))
             /\ user_row' = user_row
        ELSE /\ user_row' = [user_row EXCEPT ![c.user].email_verified_at = Some(now)]
             /\ call' = [call EXCEPT ![p].pc = "verify_cleanup"]
             /\ last' = IdleCall
    /\ UNCHANGED <<now, users, refresh_tokens, verification_tokens, issued, vissued, consumed,
                   revoked, access_tokens, authenticated>>

\* the end of verify_email: let _ = cleanup_expired(db).await, then the answer
VerifyEmailCleanup(p) ==
    /\ call[p].pc = "verify_cleanup"
    /\ \E ok \in BOOLEAN :
        /\ verification_tokens' = IF ok THEN DeleteExpired(verification_tokens, now)
                                        ELSE verification_tokens
        /\ Return(p, [call[p] EXCEPT !.cleanup = IF ok THEN "done" ELSE "failed"],
                  EmailVerifySuccess("Email verified successfully"))
    /\ UNCHANGED <<now, users, user_row, refresh_tokens, issued, vissued, consumed, revoked,
                   access_tokens, authenticated>>

\* update_user up to the lookup of the new address: require_authenticate_as_user,
\* which hands the handler the row it read, then input.validate, whose rules
\* lie outside the files at hand: the input passes or it does not
UserResult == [tag |-> "User", message |-> ""]
UpdateUserAuth(p, credential, email) ==
    /\ Free(p)
    /\ LET c == [Begin("update_user", Carried(credential), "")
                    EXCEPT !.credential = credential, !.email = email, !.now = now]
           r == require_authenticate_as_user(credential, now, users) IN
        IF r.tag # "Authenticated"
        THEN Return(p, c, AuthError(r.message))
        ELSE \E valid \in BOOLEAN :
               IF ~valid
               THEN Return(p, c, ValidationError("email"))
               ELSE /\ call' = [call EXCEPT ![p] =
                          [c EXCEPT !.pc = "find_email", !.user = r.user,
                                    !.current_user = Some(user_row[r.user])]]
                    /\ last' = IdleCall
    /\ UNCHANGED <<now, users, user_row, refresh_tokens, verification_tokens, issued, vissued,
                   consumed, revoked, access_tokens, authenticated>>

\* Users::find().filter(Email.eq(input.email)).one(db): another account with
\* the address ends the handler; an error of the lookup is passed over
UpdateUserFind(p) ==
    /\ call[p].pc = "find_email"
    /\ LET c == call[p]
           existing == {u \in users : user_row[u].email = c.email} IN
        \E ok \in BOOLEAN :
           IF ok /\ existing \ {c.user} # {}
           THEN Return(p, c, AuthError("Email already in use"))
           ELSE /\ call' = [call EXCEPT ![p].pc = "update_user"]
                /\ last' = IdleCall
    /\ UNCHANGED <<now, users, user_row, refresh_tokens, verification_tokens, issued, vissued,
                   consumed, revoked, access_tokens, authenticated>>

\* email_changed, from the row read at authentication
email_changed(c) == Unwrap(c.current_user).email # c.email

\* UPDATE users SET email, updated_at [, email_verified_at = NULL] WHERE id:
\* only the columns the handler has set are written
UpdateUserWrite(p) ==
    /\ call[p].pc = "update_user"
    /\ LET c == call[p] IN
        IF c.user \notin users
        THEN /\ Return(p, c, DbError("None of the records are updated"))
             /\ user_row' = user_row
        ELSE /\ user_row' = [user_row EXCEPT
                    ![c.user].email = c.email,
                    ![c.user].updated_at = Some(now),
                    ![c.user].email_verified_at = IF email_changed(c) THEN None ELSE @]
             /\ IF email_changed(c) /\ EmailServiceConfigured
                THEN /\ call' = [call EXCEPT ![p].pc = "update_token"]
                     /\ last' = IdleCall
                ELSE Return(p, c, UserResult)
    /\ UNCHANGED <<now, users, refresh_tokens, verification_tokens, issued, vissued, consumed,
                   revoked, access_tokens, authenticated>>

\* the end of update_user after a change of address: create_token(
\* EmailVerification, 86400) for the mail to the new address, whose error is
\* logged and not returned, then the answer
UpdateUserCreateToken(p) ==
    /\ call[p].pc = "update_token"
    /\ \E ok \in BOOLEAN :
        /\ ok => Cardinality(vissued) < MaxVerification
        /\ LET raw_token == [uuid |-> Cardinality(vissued) + 1]
               expires_at == now + ExpiresIn("EmailVerification")
               record == [id |-> raw_token.uuid, user_id |-> call[p].user,
                          token_hash |-> vt_hash_token(raw_token), kind |-> "EmailVerification",
                          expires_at |-> expires_at, used_at |-> None] IN
            IF ok
            THEN /\ verification_tokens' = verification_tokens \cup {record}
                 /\ vissued' = vissued \cup {[raw |-> raw_token, user_id |-> call[p].user,
                                 kind |-> "EmailVerification", expires_at |-> expires_at,
                                 email |-> call[p].email]}
                 /\ consumed' = [v \in DOMAIN consumed \cup {raw_token} |->
                                    IF v = raw_token THEN 0 ELSE consumed[v]]
            ELSE UNCHANGED <<verification_tokens, vissued, consumed>>
    /\ Return(p, call[p], UserResult)
    /\ UNCHANGED <<now, users, user_row, refresh_tokens, issued, revoked, access_tokens,
                   authenticated>>

\* forgot_password up to create_token: Users::find().filter(Email.eq(email));
\* an address no account has gets the same answer as one that an account has
PasswordResetSuccess == [tag |-> "PasswordResetSuccess", message |-> ""]
ForgotPasswordFind(p, email) ==
    /\ Free(p)
    /\ LET c == [Begin("forgot_password", FakeToken, "") EXCEPT !.email = email, !.now = now]
           found == {u \in users : user_row[u].email = email} IN
        IF found = {}
        THEN Return(p, c, PasswordResetSuccess)
        ELSE \E user \in found :
                IF EmailServiceConfigured
                THEN /\ call' = [call EXCEPT ![p] = [c EXCEPT !.pc = "reset_token", !.user = user]]
                     /\ last' = IdleCall
                ELSE Return(p, [c EXCEPT !.user = user], PasswordResetSuccess)
    /\ UNCHANGED <<now, users, user_row, refresh_tokens, verification_tokens, issued, vissued,
                   consumed, revoked, access_tokens, authenticated>>

\* the end of forgot_password: create_token(PasswordReset, 3600), whose error
\* is logged and not returned, then the answer
ForgotPasswordCreateToken(p) ==
    /\ call[p].pc = "reset_token"
    /\ \E ok \in BOOLEAN :
        /\ ok => Cardinality(vissued) < MaxVerification
        /\ LET raw_token == [uuid |-> Cardinality(vissued) + 1]
               expires_at == now + ExpiresIn("PasswordReset")
               record == [id |-> raw_token.uuid, user_id |-> call[p].user,
                          token_hash |-> vt_hash_token(raw_token), kind |-> "PasswordReset",
                          expires_at |-> expires_at, used_at |-> None] IN
            IF ok
            THEN /\ verification_tokens' = verification_tokens \cup {record}
                 /\ vissued' = vissued \cup {[raw |-> raw_token, user_id |-> call[p].user,
                                 kind |-> "PasswordReset", expires_at |-> expires_at,
                                 email |-> call[p].email]}
                 /\ consumed' = [v \in DOMAIN consumed \cup {raw_token} |->
                                    IF v = raw_token THEN 0 ELSE consumed[v]]
            ELSE UNCHANGED <<verification_tokens, vissued, consumed>>
    /\ Return(p, call[p], PasswordResetSuccess)
    /\ UNCHANGED <<now, users, user_row, refresh_tokens, issued, revoked, access_tokens,
                   authenticated>>

\* a password change that goes on to the cleanup without revoking anything
PasswordRevokeNone(p) ==
    /\ call[p].pc = "password_revoke"
    /\ call' = [call EXCEPT ![p].pc = "cleanup", ![p].revoke_ok = TRUE]
    /\ last' = IdleCall
    /\ UNCHANGED <<now, users, user_row, refresh_tokens, verification_tokens, issued, vissued,
                   consumed, revoked, access_tokens, authenticated>>

\* revoke_all_refresh_tokens after the password update: its error is logged
\* (change_password) or dropped (reset_password), never returned
PasswordRevokeAll(p) ==
    /\ call[p].pc = "password_revoke"
    /\ \E ok \in BOOLEAN :
        /\ refresh_tokens' = IF ok THEN DeleteByUser(refresh_tokens, call[p].user)
                                   ELSE refresh_tokens
        /\ call' = [call EXCEPT ![p].pc = "cleanup", ![p].revoke_ok = ok]
    /\ last' = IdleCall
    /\ UNCHANGED <<now, users, user_row, verification_tokens, issued, vissued, consumed, revoked,
                   access_tokens, authenticated>>

-----------------------------------------------------------------------------
(* the tail the mutations share                                            *)

\* what each mutation answers once its cleanup call is over
Answer(op) ==
    CASE op \in {"logout", "logout_all_devices"} -> Ok
      [] op \in {"change_password", "reset_password"} -> PasswordChangeSuccess
      [] OTHER -> AuthorizedUser

\* a handler that returns the error of its cleanup call
CleanupPropagates(ok, result) ==
    IF ok THEN result ELSE DbError("cleanup_expired_tokens")

\* let _ = cleanup_expired_tokens(db).await: what the handler goes on with
\* after a cleanup call that ended well (ok) or with an error
CleanupOutcome(ok, result) == result

\* the raw tokens a returning handler has revoked: the token of a logout, and
\* the sessions a password change found and deleted
RevokedBy(c) ==
    IF c.op = "logout" THEN {c.token} \cap issued
    ELSE IF c.op \in {"change_password", "reset_password"} /\ c.revoke_ok
    THEN {t \in issued : \E r \in c.snapshot : r.token_hash = hash_token(t)}
    ELSE {}

\* the tokens a returning handler hands to its caller: sign_in and sign_up
\* open a session, refresh_access_token answers with the token it minted
OpensSession(c) == c.op \in {"sign_in", "sign_up"}
AccessTokenOf(c) == IF OpensSession(c) THEN Some(generate_token(c.user)) ELSE c.minted
RefreshTokenOf(c) == IF OpensSession(c) THEN {c.token} ELSE {}

\* the handler answers AuthorizedUser, Ok or PasswordChangeSuccess
Succeed(p, c) ==
    LET d == [c EXCEPT !.minted = AccessTokenOf(c)] IN
    /\ revoked' = revoked \cup RevokedBy(d)
    /\ issued' = issued \cup RefreshTokenOf(d)
    /\ access_tokens' = access_tokens \cup (IF OpensSession(d) THEN {Unwrap(d.minted)} ELSE {})
    /\ Return(p, d, Answer(d.op))

\* let _ = cleanup_expired_tokens(db).await, then the rest of the handler:
\* the answer, or in sign_up the verification token first
OpportunisticCleanup(p) ==
    /\ call[p].pc = "cleanup"
    /\ \E ok \in BOOLEAN :
        LET c == [call[p] EXCEPT !.cleanup = IF ok THEN "done" ELSE "failed"]
            result == CleanupOutcome(ok, Answer(c.op)) IN
        /\ refresh_tokens' = IF ok THEN DeleteExpired(refresh_tokens, now) ELSE refresh_tokens
        /\ IF result # Answer(c.op)
           THEN /\ Return(p, c, result)
                /\ UNCHANGED <<issued, revoked, access_tokens>>
           ELSE IF c.op = "sign_up" /\ EmailServiceConfigured
           THEN /\ call' = [call EXCEPT ![p] = [c EXCEPT !.pc = "create_token"]]
                /\ last' = IdleCall
                /\ UNCHANGED <<issued, revoked, access_tokens>>
           ELSE Succeed(p, c)
    /\ UNCHANGED <<now, users, user_row, verification_tokens, vissued, consumed, authenticated>>

\* the end of sign_up: create_token(EmailVerification, 86400), whose error is
\* logged and not returned, then the answer
SignUpCreateToken(p) ==
    /\ call[p].pc = "create_token"
    /\ \E ok \in BOOLEAN :
        /\ ok => Cardinality(vissued) < MaxVerification
        /\ LET raw_token == [uuid |-> Cardinality(vissued) + 1]
               expires_at == now + ExpiresIn("EmailVerification")
               record == [id |-> raw_token.uuid, user_id |-> call[p].user,
                          token_hash |-> vt_hash_token(raw_token), kind |-> "EmailVerification",
                          expires_at |-> expires_at, used_at |-> None] IN
            IF ok
            THEN /\ verification_tokens' = verification_tokens \cup {record}
                 /\ vissued' = vissued \cup {[raw |-> raw_token, user_id |-> call[p].user,
                                 kind |-> "EmailVerification", expires_at |-> expires_at,
                                 email |-> user_row[call[p].user].email]}
                 /\ consumed' = [v \in DOMAIN consumed \cup {raw_token} |->
                                    IF v = raw_token THEN 0 ELSE consumed[v]]
            ELSE UNCHANGED <<verification_tokens, vissued, consumed>>
    /\ Succeed(p, call[p])
    /\ UNCHANGED <<now, users, user_row, refresh_tokens, authenticated>>

-----------------------------------------------------------------------------

\* the service functions of the refresh-token store
StoreStep(p) ==
    \/ \E u \in UserIds : CreateRefreshToken(p, u, None)
    \/ \E t \in Presentable : ValidateLookup(p, "validate_refresh_token", t)
    \/ ValidateUpdate(p)
    \/ \E t \in Presentable : RevokeRefreshToken(p, t)
    \/ \E u \in UserIds : RevokeAllRefreshTokens(p, u)
    \/ CleanupExpiredTokens(p)

\* create_refresh_token with its await and its cancellation
CreateStep(p) ==
    \/ \E u \in UserIds : CreateInsert(p, u, None)
    \/ CreateReturn(p)
    \/ CreateCancelled(p)
    \/ \E u \in UserIds : CreateCancelledEarly(p, u, None)

\* the other functions of the refresh-token store
StoreReadDeleteStep(p) ==
    \/ \E t \in Presentable : ValidateLookup(p, "validate_refresh_token", t)
    \/ ValidateUpdate(p)
    \/ \E t \in Presentable : RevokeRefreshToken(p, t)
    \/ \E u \in UserIds : RevokeAllRefreshTokens(p, u)
    \/ CleanupExpiredTokens(p)

\* the mutations on sessions
SessionStep(p) ==
    \/ \E t \in Presentable : LogoutRevoke(p, t)
    \/ \E t \in Presentable : ValidateLookup(p, "refresh_access_token", t)
    \/ RefreshGetUser(p)
    \/ OpportunisticCleanup(p)

\* the service functions of the verification-token store
VerificationStep(p) ==
    \/ \E u \in UserIds, k \in Kinds : CreateToken(p, u, k, ExpiresIn(k))
    \/ \E t \in VPresentable, k \in Kinds : ValidateTokenLookup(p, t, k)
    \/ ValidateTokenUpdate(p)
    \/ CleanupExpired(p)

\* the refresh-token store and the session mutations under concurrent requests
NextSession == Tick \/ \E p \in Procs : StoreStep(p) \/ SessionStep(p)
SpecSession == Init /\ [][NextSession]_vars

\* the verification-token store under concurrent requests
NextVerification == Tick \/ \E p \in Procs : VerificationStep(p)
SpecVerification == Init /\ [][NextVerification]_vars

\* the verification-token store, one request at a time
NextVerificationSeq == Tick \/ VerificationStep(1)
SpecVerificationSeq == Init /\ [][NextVerificationSeq]_vars

\* the refresh-token store under concurrent requests
NextStore == Tick \/ \E p \in Procs : StoreStep(p)
SpecStore == Init /\ [][NextStore]_vars

\* the refresh-token store and the session mutations, one request at a time
NextSeq == Tick \/ StoreStep(1) \/ SessionStep(1)
SpecSeq == Init /\ [][NextSeq]_vars

\* the refresh-token store with create_refresh_token cut at its await and open
\* to cancellation, under concurrent requests
NextCreate == Tick \/ \E p \in Procs : CreateStep(p) \/ StoreReadDeleteStep(p)
SpecCreate == Init /\ [][NextCreate]_vars

\* the requests that authenticate and nothing more
AuthStep(p) == \E credential \in Credentials : Authenticate(p, credential)

\* sign_in and logout_all_devices, for the accounts and passwords given
SignInStep(p, ids, passwords) ==
    \/ \E id \in ids, password \in passwords : SignInFind(p, EmailOf(id), password)
    \/ SessionCreate(p)

LogoutAllStep(p) ==
    \/ \E t \in access_tokens \cup issued \cup {FakeToken} : LogoutAllGetUser(p, t)
    \/ LogoutAllRevoke(p)

\* change_password, and forgot_password's token followed by reset_password,
\* for the accounts and passwords given
PasswordStep(p, ids, current_passwords, new_passwords) ==
    \/ \E credential \in Credentials, current_password \in current_passwords,
          new_password \in new_passwords :
          ChangePasswordAuth(p, credential, current_password, new_password)
    \/ \E u \in ids : CreateToken(p, u, "PasswordReset", ExpiresIn("PasswordReset"))
    \/ \E t \in VPresentable, new_password \in new_passwords :
          ResetPasswordLookup(p, t, new_password)
    \/ ValidateTokenUpdate(p)
    \/ UpdatePassword(p)
    \/ PasswordRevokeAll(p)

\* sign_up, around the steps it shares with sign_in
SignUpStep(p, passwords) ==
    \/ \E id \in NewUserIds, password \in passwords : SignUpCreateUser(p, id, password)
    \/ SessionCreate(p)
    \/ SignUpCreateToken(p)

\* refresh_access_token and logout
RefreshStep(p) ==
    \/ \E t \in Presentable : ValidateLookup(p, "refresh_access_token", t)
    \/ ValidateUpdate(p)
    \/ RefreshGetUser(p)
LogoutStep(p) == \E t \in Presentable : LogoutRevoke(p, t)

\* one account and the mutations that end its sessions, with requests that
\* authenticate, one request at a time within one tick of the clock
NextAccess ==
    \/ SignInStep(1, {"U"}, {StrongPassword}) \/ LogoutStep(1) \/ LogoutAllStep(1)
    \/ PasswordStep(1, {"U"}, {StrongPassword}, {PrefixedPassword}) \/ OpportunisticCleanup(1) \/ AuthStep(1)
SpecAccess == Init /\ [][NextAccess]_vars

\* the seven mutations that end with the opportunistic cleanup, one request at
\* a time within one tick of the clock
NextMutations ==
    \/ SignUpStep(1, {StrongPassword}) \/ SignInStep(1, {"U"}, {StrongPassword})
    \/ RefreshStep(1) \/ LogoutStep(1) \/ LogoutAllStep(1)
    \/ PasswordStep(1, {"U"}, {StrongPassword}, {PrefixedPassword}) \/ OpportunisticCleanup(1)
SpecMutations == Init /\ [][NextMutations]_vars

\* password changes of one account against its sign-ins and refreshes, under
\* concurrent requests within one tick of the clock
NextPassword ==
    \E p \in Procs :
        \/ SignInStep(p, {"U"}, {StrongPassword}) \/ RefreshStep(p)
        \/ PasswordStep(p, {"U"}, {StrongPassword}, {PrefixedPassword}) \/ OpportunisticCleanup(p)
SpecPassword == Init /\ [][NextPassword]_vars

\* time passes, tokens are minted and accounts are deleted while requests
\* authenticate
NextAuth ==
    \/ TickAuth
    \/ \E u \in UserIds : IssueAccessToken(u)
    \/ \E u \in UserIds : DeleteUser(u)
    \/ \E p \in Procs : AuthStep(p)
SpecAuth == Init /\ [][NextAuth]_vars

\* what a client may send as the description of its device
DeviceInfos == {None, Some("device")}

\* create_refresh_token with and without a device description, against
\* validate and revoke, under concurrent requests
NextDevice ==
    \/ Tick
    \/ \E p \in Procs :
        \/ \E u \in UserIds, d \in DeviceInfos : CreateRefreshToken(p, u, d)
        \/ \E t \in Presentable : ValidateLookup(p, "validate_refresh_token", t)
        \/ ValidateUpdate(p)
        \/ \E t \in Presentable : RevokeRefreshToken(p, t)
SpecDevice == Init /\ [][NextDevice]_vars

\* tokens are minted under either key and decoded as time passes
NextToken ==
    \/ TickToken
    \/ \E u \in UserIds, key \in Secrets, ttl \in Ttls : Encode(u, key, ttl)
    \/ \E t \in access_tokens : GetClaims(t)
SpecToken == Init /\ [][NextToken]_vars

\* the tokens a client may put into a header of its request
Sendable == access_tokens \cup {FakeToken}

\* HTTP requests with and without an Authorization header and a cookie
\* header, while time passes, tokens are minted and accounts are deleted
NextBoundary ==
    \/ TickAuth
    \/ \E u \in UserIds : IssueAccessToken(u)
    \/ \E u \in UserIds : DeleteUser(u)
    \/ \E authorization \in AuthorizationHeaders(Sendable), cookie \in CookieHeaders(Sendable) :
          Index(1, authorization, cookie)
SpecBoundary == Init /\ [][NextBoundary]_vars

\* what a client may type as its email: nothing, the email of U, a piece of
\* it that other emails hold as well, and an email no account has
UnknownEmail == <<"n", "@", "h">>
EmailPiece == <<"@", "h">>
SignInEmails == {<<>>, EmailOf("U"), EmailPiece, UnknownEmail}

\* sign_in with the typed emails and passwords, to its answer
SignInByEmailStep(p, emails, passwords) ==
    \/ \E email \in emails, password \in passwords : SignInFind(p, email, password)
    \/ SessionCreate(p)
    \/ OpportunisticCleanup(p)

\* concurrent sign-ins with right and wrong emails and passwords, within one
\* tick of the clock
NextSignIn ==
    \E p \in Procs : SignInByEmailStep(p, SignInEmails, {StrongPassword, PrefixedPassword})
SpecSignIn == Init /\ [][NextSignIn]_vars

\* sign-ins and logouts of two accounts as time passes, one request at a time
NextSignInSeq ==
    \/ Tick
    \/ SignInByEmailStep(1, {EmailOf("U"), EmailOf("V")}, {StrongPassword, PrefixedPassword})
    \/ LogoutStep(1)
SpecSignInSeq == Init /\ [][NextSignInSeq]_vars

\* sign-ins of two accounts, logout_all_devices and refreshes while access
\* tokens expire, one request at a time
NextLogoutAll ==
    \/ TickAuth
    \/ SignInStep(1, {"U", "V"}, {StrongPassword})
    \/ LogoutAllStep(1)
    \/ RefreshStep(1)
    \/ OpportunisticCleanup(1)
SpecLogoutAll == Init /\ [][NextLogoutAll]_vars

\* sign_up in single-user mode, to its answer
SignUpSingleUserStep(p, passwords) ==
    \/ \E password \in passwords : SignUpCount(p, password)
    \/ \E id \in AllUserIds : SignUpInsert(p, id)
    \/ SessionCreate(p)
    \/ OpportunisticCleanup(p)
    \/ SignUpCreateToken(p)

\* concurrent sign-ups at a server in single-user mode whose users table is
\* empty at the start, within one tick of the clock
NextSingleUser == \E p \in Procs : SignUpSingleUserStep(p, {WeakPassword, StrongPassword})
SpecSingleUser == InitWith({}) /\ [][NextSingleUser]_vars

\* reset_password and verify_email over the tokens of both kinds and of two
\* accounts, under concurrent requests
PurposeStep(p) ==
    \/ \E u \in UserIds, k \in Kinds : CreateToken(p, u, k, ExpiresIn(k))
    \/ \E t \in VPresentable : ResetPasswordLookup(p, t, PrefixedPassword)
    \/ \E t \in VPresentable : VerifyEmailLookup(p, t)
    \/ ValidateTokenUpdate(p)
    \/ UpdatePassword(p)
    \/ PasswordRevokeAll(p)
    \/ OpportunisticCleanup(p)
    \/ VerifyEmailUpdate(p)
    \/ VerifyEmailCleanup(p)
NextPurpose == Tick \/ \E p \in Procs : PurposeStep(p)
SpecPurpose == Init /\ [][NextPurpose]_vars

\* refresh_access_token beside logouts and the deletion of accounts, under
\* concurrent requests
NextRefresh ==
    \/ Tick
    \/ \E u \in UserIds : DeleteUser(u)
    \/ \E p \in Procs :
        \/ \E u \in UserIds : CreateRefreshToken(p, u, None)
        \/ RefreshStep(p)
        \/ LogoutStep(p)
        \/ OpportunisticCleanup(p)
SpecRefresh == Init /\ [][NextRefresh]_vars

\* update_user with the addresses given, and verify_email
UpdateUserStep(p, emails) ==
    \/ \E credential \in Credentials, email \in emails : UpdateUserAuth(p, credential, email)
    \/ UpdateUserFind(p)
    \/ UpdateUserWrite(p)
    \/ UpdateUserCreateToken(p)
VerifyEmailStep(p) ==
    \/ \E t \in VPresentable : VerifyEmailLookup(p, t)
    \/ ValidateTokenUpdate(p)
    \/ VerifyEmailUpdate(p)
    \/ VerifyEmailCleanup(p)

\* the address of an account from its verification mail to a change of
\* address and on, one request at a time: the verification tokens that
\* sign_up and resend_verification_email create, update_user, verify_email
NewEmail == <<"n", "@", "h">>
NextEmail ==
    \/ IssueAccessToken("U")
    \/ CreateToken(1, "U", "EmailVerification", ExpiresIn("EmailVerification"))
    \/ UpdateUserStep(1, {NewEmail, RegisteredEmail("U"), RegisteredEmail("V")})
    \/ VerifyEmailStep(1)
SpecEmail == Init /\ [][NextEmail]_vars

\* change_password of one account against its sign-ins, under concurrent
\* requests within one tick of the clock
ChangePasswordStep(p, current_passwords, new_passwords) ==
    \/ \E credential \in Credentials, current_password \in current_passwords,
          new_password \in new_passwords :
          ChangePasswordAuth(p, credential, current_password, new_password)
    \/ UpdatePassword(p)
    \/ PasswordRevokeAll(p)
NextChangePassword ==
    \E p \in Procs :
        \/ SignInStep(p, {"U"}, {StrongPassword})
        \/ ChangePasswordStep(p, {StrongPassword}, {PrefixedPassword})
        \/ OpportunisticCleanup(p)
SpecChangePassword == Init /\ [][NextChangePassword]_vars

\* forgot_password and reset_password for the addresses and the new
\* passwords given
ResetStep(p, emails, new_passwords) ==
    \/ \E email \in emails : ForgotPasswordFind(p, email)
    \/ ForgotPasswordCreateToken(p)
    \/ \E t \in VPresentable, new_password \in new_passwords :
          ResetPasswordLookup(p, t, new_password)
    \/ ValidateTokenUpdate(p)
    \/ UpdatePassword(p)
    \/ PasswordRevokeAll(p)
    \/ OpportunisticCleanup(p)

\* the reset of a forgotten password, one request at a time while the clock
\* runs: a new password that the validation of the users row refuses, and
\* one it accepts
NextReset ==
    \/ Tick
    \/ ResetStep(1, {RegisteredEmail("U"), RegisteredEmail("V"), NewEmail},
                 {StrongPassword, PrefixedPassword})
SpecReset == Init /\ [][NextReset]_vars

\* a refresh token of U from time 0 whose lifetime spans the ticks of the
\* clock, as of a deployment whose REFRESH_TOKEN_EXPIRATION_DAYS is longer
\* than one tick, and the state in which its session is the only one stored
LongSession == [iss |-> "host", sub |-> "U", exp |-> MaxTime, iat |-> 0, jti |-> 1, signed |-> TRUE]
InitLongSession ==
    /\ now = 0
    /\ users = UserIds
    /\ user_row = [u \in AllUserIds |->
                      UserRow(RegisteredEmail(u), hash_password(StrongPassword), None)]
    /\ refresh_tokens = {NewRefreshRow(LongSession, "U", None)}
    /\ verification_tokens = {}
    /\ issued = {LongSession}
    /\ vissued = {}
    /\ consumed = [v \in {} |-> 0]
    /\ revoked = {}
    /\ access_tokens = {}
    /\ authenticated = {}
    /\ call = [p \in Procs |-> IdleCall]
    /\ last = IdleCall

\* the refresh-token store under concurrent requests, with a session that
\* stays valid while the clock ticks
SpecLongSession == InitLongSession /\ [][NextStore]_vars

\* refresh_access_token of the sessions of two accounts, one request at a
\* time, while the clock runs until a refresh token from time 0 no longer
\* decodes
MaxRefreshTime == RefreshTokenExpiration + Leeway + 1
TickRefresh == Clock(MaxRefreshTime)
NextRefreshClock ==
    \/ TickRefresh
    \/ \E u \in UserIds : CreateRefreshToken(1, u, None)
    \/ RefreshStep(1)
    \/ OpportunisticCleanup(1)
SpecRefreshClock == Init /\ [][NextRefreshClock]_vars

\* everything at once
Next ==
    \/ Tick
    \/ TickAuth
    \/ TickToken
    \/ TickRefresh
    \/ \E u \in UserIds : IssueAccessToken(u) \/ DeleteUser(u)
    \/ \E u \in UserIds, key \in Secrets, ttl \in Ttls : Encode(u, key, ttl)
    \/ \E t \in access_tokens : GetClaims(t)
    \/ \E authorization \in AuthorizationHeaders(Sendable), cookie \in CookieHeaders(Sendable) :
          Index(1, authorization, cookie)
    \/ \E p \in Procs : \/ StoreStep(p) \/ CreateStep(p) \/ SessionStep(p)
                         \/ VerificationStep(p) \/ AuthStep(p)
                         \/ SignInStep(p, AllUserIds, Passwords) \/ LogoutAllStep(p)
                         \/ PasswordStep(p, UserIds, Passwords, Passwords) \/ SignUpStep(p, Passwords)
                         \/ SignInByEmailStep(p, SignInEmails, Passwords)
                         \/ SignUpSingleUserStep(p, Passwords)
                         \/ VerifyEmailStep(p)
                         \/ UpdateUserStep(p, SignInEmails \cup {RegisteredEmail("V")})
                         \/ ResetStep(p, SignInEmails, Passwords)
                         \/ \E u \in UserIds, d \in DeviceInfos : CreateRefreshToken(p, u, d)
Spec == Init /\ [][Next]_vars

-----------------------------------------------------------------------------
(* Properties.  last is the response of the step just taken: a property of *)
(* last is a property of every response at the moment it is returned.      *)

Returned(op) == last.pc = "done" /\ last.op = op

\* the store holds an unexpired row for this raw token at time t
HoldsValidRecord(token, t) ==
    \E r \in refresh_tokens : r.token_hash = hash_token(token) /\ r.expires_at > t

\* C1: validate_refresh_token succeeds iff the store holds a row whose token_hash
\* is the hash of the raw token and whose expires_at is strictly later than the
\* time of the call; in every other case it returns an AuthError.
C1_ValidateIffValidRecord ==
    Returned("validate_refresh_token") =>
        /\ last.result.tag \in {"Ok", "AuthError"}
        /\ last.result.tag = "Ok" <=> HoldsValidRecord(last.token, last.now)

\* C1 happens: a validation of an issued token has succeeded
C1_Witness ==
    /\ Returned("validate_refresh_token")
    /\ last.token \in issued
    /\ last.result.tag = "Ok"

\* C2: once revoke_refresh_token(t) or logout(t) has returned, every
\* validate_refresh_token(t) and refreshAccessToken(t) that starts afterwards
\* fails, whatever ran in between.
C2_RevokedNeverValidates ==
    (Returned("validate_refresh_token") \/ Returned("refresh_access_token")) =>
        (last.after_revoke => last.result.tag = "AuthError")

\* C2 happens: a refresh with a token that was issued and then revoked
C2_Witness ==
    /\ Returned("refresh_access_token")
    /\ last.token \in issued
    /\ last.after_revoke
    /\ last.result.tag = "AuthError"

\* the row of a raw verification token, looked up as validate_token does
VRows(raw_token, kind) ==
    {r \in verification_tokens : r.token_hash = vt_hash_token(raw_token) /\ r.kind = kind}

\* the creation record of a raw verification token
Created(raw_token) == {v \in vissued : v.raw = raw_token}

\* validate_token was asked for the kind the token was created with
RightKind == \E v \in Created(last.token) : v.kind = last.kind

\* validate_token was asked for another kind than the token was created with
WrongKind == \E v \in Created(last.token) : v.kind # last.kind

\* the token has not expired by the time the call returns
UnexpiredAtReturn == \E v \in Created(last.token) : ~(v.expires_at < now)

\* the first validate_token on an unexpired token of the right kind succeeds
\* and leaves used_at set
FirstValidateSucceeds ==
    (Returned("validate_token") /\ RightKind /\ UnexpiredAtReturn /\ ~last.after_use) =>
        /\ last.result = Ok
        /\ \E r \in VRows(last.token, last.kind) : IsSome(r.used_at)

\* C3 as stated: the first validate_token succeeds, and every validate_token of
\* the same token and kind that starts after it has returned fails with
\* 'Token already used'.
C3_AlwaysAlreadyUsed ==
    /\ FirstValidateSucceeds
    /\ (Returned("validate_token") /\ RightKind /\ last.after_use) =>
           last.result = TokenError("Token already used")

\* C3, amended: the first validate_token succeeds and sets used_at; every
\* validate_token on the same raw token that starts after it has returned fails:
\* with 'Token already used' while the row is stored and its kind is asked for,
\* with 'Invalid or expired token' once cleanup_expired has deleted the row or
\* when another kind is asked for.
C3_ConsumedOnce ==
    /\ FirstValidateSucceeds
    /\ (Returned("validate_token") /\ last.after_use) =>
           last.result = IF VRows(last.token, last.kind) # {}
                         THEN TokenError("Token already used")
                         ELSE TokenError("Invalid or expired token")

\* C3 happens: a consumed token, swept after its expiry, is tried again
C3_Witness ==
    /\ Returned("validate_token")
    /\ RightKind
    /\ last.after_use
    /\ last.result = TokenError("Invalid or expired token")

\* C4: whatever the interleaving of validate_token calls on one raw token, at
\* most one of them returns success.
C4_AtMostOneSuccess ==
    \A raw_token \in DOMAIN consumed : consumed[raw_token] <= 1

\* C5: validate_token(token, K2) fails for every token created with a kind
\* K1 # K2, also when the token is unused and unexpired.
C5_KindScoped ==
    (Returned("validate_token") /\ WrongKind) => last.result.tag = "TokenError"

\* C5 happens: an unused, unexpired token was refused for its kind
C5_Witness ==
    /\ Returned("validate_token")
    /\ WrongKind
    /\ last.result.tag = "TokenError"
    /\ \E r \in verification_tokens :
          /\ r.token_hash = vt_hash_token(last.token)
          /\ r.used_at = None
          /\ ~(r.expires_at < now)

\* a validate_token of the wrong kind has just returned
WrongKindReturns == (Returned("validate_token") /\ WrongKind)'

\* C6: a validate_token with the wrong kind leaves the token's row unchanged
\* (used_at stays null), so that a later validate_token with the right kind
\* succeeds once, and fails on retry.
C6_WrongKindLeavesRow ==
    /\ [][WrongKindReturns =>
            /\ verification_tokens' = verification_tokens
            /\ consumed' = consumed]_vars
    /\ [](/\ FirstValidateSucceeds
          /\ (Returned("validate_token") /\ RightKind /\ last.after_use) =>
                 last.result.tag = "TokenError"
          /\ (Returned("validate_token") /\ last.result = Ok) =>
                 consumed[last.token] = 1)

\* C6 happens: after a refused wrong-kind attempt the row is still unused
C6_Witness ==
    /\ Returned("validate_token")
    /\ WrongKind
    /\ consumed[last.token] = 0
    /\ \E r \in verification_tokens :
          /\ r.token_hash = vt_hash_token(last.token)
          /\ r.used_at = None
          /\ ~(r.expires_at < now)

\* C7: revoke_refresh_token and revoke_all_refresh_tokens return Ok also when no
\* row matches, a second call straight after the first changes nothing, and
\* logout answers true also for a token without a row.
C7_RevokeIdempotent ==
    /\ Returned("revoke_refresh_token") =>
          /\ last.result = Ok
          /\ DeleteByHash(refresh_tokens, hash_token(last.token)) = refresh_tokens
    /\ Returned("revoke_all_refresh_tokens") =>
          /\ last.result = Ok
          /\ DeleteByUser(refresh_tokens, last.user) = refresh_tokens
    /\ Returned("logout") => last.result = Ok

\* C7 happens: a token already revoked is revoked again while rows are stored
C7_Witness ==
    /\ Returned("revoke_refresh_token")
    /\ last.after_revoke
    /\ refresh_tokens # {}

\* a revoke_all_refresh_tokens has just returned
RevokeAllReturns == Returned("revoke_all_refresh_tokens")'

\* C8: revoke_all_refresh_tokens(U) removes exactly the rows whose user_id is U;
\* the rows of every other user are unchanged and still validate.
C8_RevokeAllExactlyUser ==
    [][RevokeAllReturns =>
         /\ refresh_tokens' = {r \in refresh_tokens : r.user_id # last'.user}
         /\ \A r \in refresh_tokens' : r.user_id # last'.user
         /\ \A t \in issued :
               (t.sub # last'.user /\ HoldsValidRecord(t, now)) => HoldsValidRecord(t, now)']_vars

\* C8 happens: the user had issued tokens, and another user's row is left
C8_Witness ==
    /\ Returned("revoke_all_refresh_tokens")
    /\ \E t \in issued : t.sub = last.user
    /\ \E r \in refresh_tokens : r.user_id # last.user /\ r.expires_at > now

\* the raw token a revoke_refresh_token that has just run was called with,
\* directly or as the first step of logout
JustRevoked ==
    {t \in Presentable :
        \/ (Returned("revoke_refresh_token") /\ last.token = t)'
        \/ \E p \in Procs : /\ call[p].pc = "idle"
                            /\ call'[p].pc = "cleanup"
                            /\ call'[p].op = "logout"
                            /\ call'[p].token = t}

\* C9: revoke_refresh_token(t) deletes only the rows whose token_hash is the
\* hash of t; every other row, other sessions of the same user included, is
\* unchanged and stays usable for a refresh.
C9_RevokeOnlyThatToken ==
    [][\A t \in JustRevoked :
         /\ refresh_tokens' = {r \in refresh_tokens : r.token_hash # hash_token(t)}
         /\ \A t2 \in issued \ {t} :
               HoldsValidRecord(t2, now) => HoldsValidRecord(t2, now)']_vars

\* C9 happens: a session was revoked and another session of its user is left
C9_Witness ==
    /\ Returned("revoke_refresh_token")
    /\ last.token \in issued
    /\ \E r \in refresh_tokens : r.user_id = last.token.sub /\ r.expires_at > now

\* C10: while an unexpired row of token t is stored, every
\* validate_refresh_token(t) returns success, also when validations of t
\* overlap: the write of one never makes another fail.
C10_ConcurrentValidatesSucceed ==
    /\ (Returned("validate_refresh_token") /\ HoldsValidRecord(last.token, last.now)) =>
           last.result = Ok
    /\ \A p, q \in Procs :
          (/\ p # q
           /\ call[p].pc = "v_update" /\ call[q].pc = "v_update"
           /\ call[p].token = call[q].token) =>
          (HoldsValidRecord(call[p].token, call[p].now) =>
              \E r \in refresh_tokens : r.id = Unwrap(call[p].found).id)

\* C10 happens: a validation succeeded while an overlapping validation of the
\* same token stands between its read and its write
C10_Witness ==
    /\ Returned("validate_refresh_token")
    /\ last.result = Ok
    /\ \E q \in Procs : /\ call[q].pc = "v_update"
                        /\ call[q].op = "validate_refresh_token"
                        /\ call[q].token = last.token

\* the stored rows of a raw refresh token
RowsOf(token) == {r \in refresh_tokens : r.token_hash = hash_token(token)}

\* a validate_refresh_token returns in this step, and the token's stored row
\* had expired when the call read the clock
ExpiredValidateReturns ==
    /\ Returned("validate_refresh_token")'
    /\ \E r \in RowsOf(last'.token) : r.expires_at <= last'.now

\* C11: validate_refresh_token on a token whose stored row has expires_at in the
\* past returns an AuthError value and leaves the row as it was, last_used_at
\* included.
C11_ExpiredFailsUntouched ==
    [][ExpiredValidateReturns =>
          /\ last'.result.tag = "AuthError"
          /\ refresh_tokens' = refresh_tokens]_vars

\* C11 happens: a token whose row expired earlier was refused, and its row is
\* still stored with last_used_at never set
C11_Witness ==
    /\ Returned("validate_refresh_token")
    /\ last.result.tag = "AuthError"
    /\ \E r \in RowsOf(last.token) : r.expires_at < last.now /\ r.last_used_at = None

\* the call found no row for the token's hash at all
NoMatchingRecord == RowsOf(last.token) = {}

\* the call found the token's row, expired at the time it read the clock
ExpiredRecord == \E r \in RowsOf(last.token) : r.expires_at <= last.now

\* C12: validate_refresh_token answers with the same error value, 'Invalid or
\* expired refresh token', when no row matches the hash and when the matching
\* row has expired: a lookup that misses is one of these two cases, and both
\* get that one value.
C12_MissIndistinguishable ==
    (Returned("validate_refresh_token") /\ last.found = None) =>
        /\ NoMatchingRecord \/ ExpiredRecord
        /\ last.result = AuthError("Invalid or expired refresh token")

\* C12 happens: an issued token is refused for its expired row while another
\* issued token has no row at all
C12_Witness ==
    /\ Returned("validate_refresh_token")
    /\ last.found = None
    /\ ExpiredRecord
    /\ \E t \in issued : RowsOf(t) = {}

\* a cleanup_expired_tokens returns in this step
CleanupReturns == Returned("cleanup_expired_tokens")'

\* C17: cleanup_expired_tokens deletes exactly the rows with expires_at earlier
\* than now and returns their number; it deletes no row validate_refresh_token
\* would accept, so for every token the lookup of validate finds the same rows
\* after the cleanup as before it.
C17_CleanupOnlyExpired ==
    [][CleanupReturns =>
          /\ refresh_tokens' = {r \in refresh_tokens : r.expires_at >= now}
          /\ last'.result = RowsAffected(Cardinality({r \in refresh_tokens : r.expires_at < now}))
          /\ \A t \in Presentable :
                {r \in refresh_tokens' : r.token_hash = hash_token(t) /\ r.expires_at > now}
                    = {r \in refresh_tokens : r.token_hash = hash_token(t) /\ r.expires_at > now}]_vars

\* C17 happens: a cleanup deleted an expired row and left a row that validates
C17_Witness ==
    /\ Returned("cleanup_expired_tokens")
    /\ last.result.rows_affected > 0
    /\ \E r \in refresh_tokens : r.expires_at > now

\* C19: every stored row's token_hash is the digest of the raw token its create
\* returned, and no row holds a raw token itself: a lookup by the raw string
\* where the digest belongs finds nothing.
C19_HashNotPlaintext ==
    /\ \A r \in refresh_tokens :
          \E t \in issued : r.id = t.jti /\ r.token_hash = hash_token(t) /\ r.token_hash # t
    /\ \A t \in issued : ~\E r \in refresh_tokens : r.token_hash = t

\* C19 happens: a validated row stands next to another token's fresh row
C19_Witness ==
    /\ \E r \in refresh_tokens : IsSome(r.last_used_at)
    /\ Cardinality(refresh_tokens) = MaxRefresh

\* a stored row is whole: every column of the INSERT is there and belongs to
\* one token
RowComplete(r) ==
    /\ DOMAIN r = {"id", "user_id", "token_hash", "expires_at", "device_info",
                   "created_at", "last_used_at"}
    /\ r.user_id \in UserIds
    /\ r.id \in 1..MaxRefresh
    /\ r.expires_at = r.created_at + RefreshTokenExpiration
    /\ \E iat \in 0..MaxTime :
          r.token_hash = hash_token([iss |-> "host", sub |-> r.user_id, exp |-> r.expires_at,
                                     iat |-> iat, jti |-> r.id, signed |-> TRUE])

\* a create is dropped in this step
CreateIsCancelled == (Returned("create_refresh_token") /\ last.result = Cancelled)'

\* what a cancelled create leaves: no row or one whole row, and no token handed out
CancelLeavesNoneOrOne ==
    /\ [][CreateIsCancelled =>
             /\ issued' = issued
             /\ refresh_tokens' = refresh_tokens
             /\ Cardinality({r \in refresh_tokens' : r.id = last'.token.jti}) <= 1]_vars
    /\ [](\A r \in refresh_tokens : RowComplete(r))
    /\ [](\A r1, r2 \in refresh_tokens : r1.id = r2.id => r1 = r2)

\* C20 as stated: a cancelled create_refresh_token leaves no new row or one whole
\* row, and every raw token has a stored row at the moment it is returned.
C20_StoredWhenReturned ==
    /\ CancelLeavesNoneOrOne
    /\ [][\A t \in issued' \ issued :
             \E r \in refresh_tokens' : r.token_hash = hash_token(t)]_vars

\* C20, amended: a cancelled create_refresh_token leaves no new row or one whole
\* row; a raw token is returned only by a call whose INSERT has run and has
\* stored the token's whole row (which a concurrent revoke-all or cleanup may
\* have deleted again by the time of the return).
C20_InsertedBeforeReturned ==
    /\ CancelLeavesNoneOrOne
    /\ [][\A t \in issued' \ issued :
             \E p \in Procs : call[p].pc = "c_return" /\ call[p].token = t]_vars
    /\ [][\A p \in Procs :
             (call[p].pc # "c_return" /\ call'[p].pc = "c_return") =>
                 \E r \in refresh_tokens' :
                    /\ r = Unwrap(call'[p].found)
                    /\ r.token_hash = hash_token(call'[p].token)
                    /\ RowComplete(r)]_vars

\* C20 happens: a create was dropped after its INSERT, and its row is stored
\* though nobody was given the token
C20_Witness ==
    /\ Returned("create_refresh_token")
    /\ last.result = Cancelled
    /\ last.token \notin issued
    /\ \E r \in refresh_tokens : r.token_hash = hash_token(last.token)

\* the credential of the response, when the request carried one
CarriedToken == Unwrap(last.credential)

C14_NeverSticky ==
    (/\ Returned("require_authenticate_as_user")
     /\ IsSome(last.credential)
     /\ verify(CarriedToken, last.now)
     /\ CarriedToken.sub \notin users)
        => last.result = AuthenticationError("User not found")

\* C14 happens: a token that had authenticated a request is refused after the
\* row of its user was deleted
C14_Witness ==
    /\ Returned("require_authenticate_as_user")
    /\ IsSome(last.credential)
    /\ CarriedToken \in access_tokens \cap authenticated
    /\ verify(CarriedToken, last.now)
    /\ CarriedToken.sub \notin users
    /\ last.result = AuthenticationError("User not found")

\* the refresh-token rows that hold the hash of a raw token
Sessions(token) == {r \in refresh_tokens : r.token_hash = hash_token(token)}

\* C15: no operation revokes an access token early.  A request that carries an
\* access token this server minted is authenticated, as the subject of the
\* token, exactly when the token still verifies and the row of that user
\* exists, whatever logout, logout_all_devices, change_password and
\* reset_password have done since; and a request that only authenticates
\* changes neither refresh_tokens nor verification_tokens nor users.
C15_AccessTokenOutlivesSessions ==
    /\ [](Returned("require_authenticate_as_user") /\ IsSome(last.credential)
            /\ CarriedToken \in access_tokens
          => (last.result = Authenticated(CarriedToken.sub)
                <=> verify(CarriedToken, last.now) /\ CarriedToken.sub \in users))
    /\ [][Returned("require_authenticate_as_user")'
            => /\ refresh_tokens' = refresh_tokens
               /\ verification_tokens' = verification_tokens
               /\ users' = users /\ user_row' = user_row]_vars

\* C15 happens: an access token authenticates although its user has changed
\* the password since it was minted and no session of that user is left
C15_Witness ==
    /\ Returned("require_authenticate_as_user")
    /\ IsSome(last.credential)
    /\ CarriedToken \in access_tokens
    /\ last.result = Authenticated(CarriedToken.sub)
    /\ user_row[CarriedToken.sub].password # hash_password(StrongPassword)
    /\ SessionsOf(refresh_tokens, CarriedToken.sub) = {}
    /\ \E t \in revoked : t.sub = CarriedToken.sub

\* a password change has answered with its success variant
PasswordChanged ==
    /\ last.pc = "done"
    /\ last.op \in {"change_password", "reset_password"}
    /\ last.result = PasswordChangeSuccess

C16_RevokeFailureLeavesSessions ==
    /\ PasswordChanged
    /\ ~last.revoke_ok
    /\ \E r \in last.snapshot : r \in refresh_tokens

\* the mutations that call cleanup_expired_tokens before they answer
CleaningMutations ==
    {"sign_up", "sign_in", "refresh_access_token", "logout", "logout_all_devices",
     "change_password", "reset_password"}

\* the handler that has just returned had made its cleanup call
ReturnedAfterCleanup == last.pc = "done" /\ last.cleanup # "none"

\* C18: a failure of the opportunistic cleanup_expired_tokens call is swallowed.
\* Whether the cleanup call of sign_up, sign_in, refresh_access_token, logout,
\* logout_all_devices, change_password or reset_password ended well or with an
\* error, the mutation returns the answer it returns after a cleanup that went
\* well, and a new session gets the same tokens.
C18_CleanupFailureSwallowed ==
    ReturnedAfterCleanup =>
        /\ last.op \in CleaningMutations
        /\ last.result = Answer(last.op)
        /\ OpensSession(last) => /\ last.minted = Some(generate_token(last.user))
                                 /\ last.token \in issued

\* C18 happens: a sign_up whose cleanup call failed has answered AuthorizedUser
C18_Witness ==
    /\ ReturnedAfterCleanup
    /\ last.op = "sign_up"
    /\ last.cleanup = "failed"
    /\ last.result = AuthorizedUser


\* a validate_refresh_token that has just returned its record
ValidateSucceeds == Returned("validate_refresh_token") /\ last.result = Ok

\* C21: create_refresh_token(U, device) inserts one record whose user_id is U,
\* whose device_info is the one given and whose last_used_at is null, under the
\* hash of the token it returns; a validate of that token that succeeds (the
\* first one among them) returns a record whose user_id is U and leaves the
\* stored record with a last_used_at that is not null.
C21_CreateThenValidate ==
    /\ [][\A p \in Procs, u \in UserIds, d \in DeviceInfos :
            CreateRefreshToken(p, u, d) =>
                \E r \in refresh_tokens' :
                    /\ refresh_tokens' \ refresh_tokens = {r}
                    /\ r.token_hash = hash_token(last'.token)
                    /\ r.user_id = u
                    /\ r.device_info = d
                    /\ r.last_used_at = None]_vars
    /\ [](ValidateSucceeds =>
            /\ Unwrap(last.found).user_id = last.token.sub
            /\ \E r \in refresh_tokens :
                  /\ r.id = Unwrap(last.found).id
                  /\ r.user_id = last.token.sub
                  /\ r.last_used_at # None)

\* C21 happens: the first validate of a token created for U with a device
\* description has returned the record of U
C21_Witness ==
    /\ ValidateSucceeds
    /\ Unwrap(last.found).user_id = "U"
    /\ Unwrap(last.found).device_info = Some("device")
    /\ Unwrap(last.found).last_used_at = None
    /\ \E r \in refresh_tokens : r.id = Unwrap(last.found).id /\ r.last_used_at # None

\* a decode that has just answered
Decoded == Returned("get_claims")

\* the decode returned exactly the claims of the token
DecodedClaims == last.result = Ok /\ last.found = Some(ClaimsOf(last.token))

\* C22: a token minted under the secret of the decoder decodes to exactly its
\* claims at every time before iat + ttl (its exp) and fails at every time
\* after it; a token minted under another secret always fails.
C22_DecodeUntilTtl ==
    Decoded =>
        /\ last.token.signed /\ last.now < last.token.exp => DecodedClaims
        /\ last.token.signed /\ last.now > last.token.exp => last.result.tag = "Err"
        /\ ~last.token.signed => last.result.tag = "Err"

\* what the decoder does: the claims up to exp + Leeway, failure after that
\* and under another secret
DecodeUntilLeeway ==
    Decoded =>
        /\ last.token.signed /\ last.now <= last.token.exp + Leeway => DecodedClaims
        /\ last.token.signed /\ last.now > last.token.exp + Leeway =>
              last.result = DecodeError("ExpiredSignature")
        /\ ~last.token.signed => last.result = DecodeError("InvalidToken")

\* a token of this server has decoded to its claims after iat + ttl
DecodedAfterTtl ==
    Decoded /\ last.token.signed /\ last.now > last.token.exp /\ DecodedClaims

\* C23: the credential of a request is the value of its Authorization header
\* whenever that header is present, the value of its access_token cookie only
\* when no Authorization header is present, and without either no token is
\* attached and the request is answered 'Token not found'.
C23_HeaderBeforeCookie ==
    [][\A authorization \in AuthorizationHeaders(Sendable), cookie \in CookieHeaders(Sendable) :
          Index(1, authorization, cookie) =>
              /\ authorization.present => last'.credential = Some(authorization.value)
              /\ ~authorization.present /\ AccessPairs(cookie) # {} =>
                    \E i \in AccessPairs(cookie) : last'.credential = Some(cookie.pairs[i].value)
              /\ ~authorization.present /\ AccessPairs(cookie) = {} =>
                    /\ last'.credential = None
                    /\ last'.result = AuthenticationError("Token not found")]_vars

\* what get_token_from_request does: the same for every Authorization header
\* that is text, while a header that is not text counts as no header
HeaderTextBeforeCookie ==
    [][\A authorization \in AuthorizationHeaders(Sendable), cookie \in CookieHeaders(Sendable) :
          Index(1, authorization, cookie) =>
              LET header == authorization.present /\ authorization.text IN
              /\ header => last'.credential = Some(authorization.value)
              /\ ~header /\ AccessPairs(cookie) # {} =>
                    \E i \in AccessPairs(cookie) : last'.credential = Some(cookie.pairs[i].value)
              /\ ~header /\ AccessPairs(cookie) = {} =>
                    /\ last'.credential = None
                    /\ last'.result = AuthenticationError("Token not found")]_vars

\* the request carries a token that decodes and whose subject has no user row
UserNotFoundCase(credential) ==
    /\ IsSome(credential)
    /\ verify(Unwrap(credential), now)
    /\ IsUuid(Unwrap(credential).sub)
    /\ Unwrap(credential).sub \notin users

\* the request carries a string that does not decode: a bad signature, a
\* malformed token or an expired one
BadCredentialsCase(credential) ==
    IsSome(credential) /\ ~verify(Unwrap(credential), now)

\* C24: the message the API returns for a valid token whose subject has no
\* user row is the message it returns for a token that does not decode, so
\* that a caller cannot tell the two failures apart.
C24_UserNotFoundWordedAsBadCredentials ==
    \A a, b \in Credentials :
        UserNotFoundCase(a) /\ BadCredentialsCase(b) =>
            require_authenticate_as_user(a, now, users).message
                = require_authenticate_as_user(b, now, users).message

\* the three refusals of validate_token
TokenRefusals ==
    {TokenError("Invalid or expired token"), TokenError("Token already used"),
     TokenError("Token expired")}

\* C25: validate_token refuses with three distinct errors and writes nothing
\* when it does: 'Invalid or expired token' when no record matches hash and
\* kind, 'Token already used' when the record found has used_at set, also
\* when it has expired as well, and 'Token expired' when an unused record has
\* expires_at before now.
C25_ThreeRefusals ==
    [][\A p \in Procs, raw_token \in VPresentable, kind \in Kinds :
          ValidateTokenLookup(p, raw_token, kind) =>
              LET rows == {r \in verification_tokens :
                              r.token_hash = vt_hash_token(raw_token) /\ r.kind = kind}
                  refused == last'.pc = "done"
              IN  /\ Cardinality(TokenRefusals) = 3
                  /\ refused => /\ last'.result \in TokenRefusals
                                /\ verification_tokens' = verification_tokens
                  /\ rows = {} =>
                        refused /\ last'.result = TokenError("Invalid or expired token")
                  /\ (\E r \in rows : IsSome(r.used_at)) =>
                        refused /\ last'.result = TokenError("Token already used")
                  /\ (\E r \in rows : ~IsSome(r.used_at) /\ r.expires_at < now) =>
                        refused /\ last'.result = TokenError("Token expired")
                  /\ (\E r \in rows : ~IsSome(r.used_at) /\ r.expires_at >= now) =>
                        ~refused]_vars

\* C25 happens: a record that is both used and expired was refused as used
C25_Witness ==
    /\ Returned("validate_token")
    /\ last.result = TokenError("Token already used")
    /\ \E r \in verification_tokens :
          /\ r.token_hash = vt_hash_token(last.token)
          /\ r.kind = last.kind
          /\ IsSome(r.used_at)
          /\ r.expires_at < now

\* no account has this email
UnknownEmailCase(email) == email # <<>> /\ \A u \in users : EmailOf(u) # email

\* an account has this email and another password
WrongPasswordCase(email, password) ==
    \E u \in users : EmailOf(u) = email /\ ~verify_password(password, user_row[u].password)

\* the step refused the sign-in in the one wording, and wrote nothing
SignInRefused ==
    /\ last'.pc = "done"
    /\ last'.result = ValidationError("Email or password incorrect")
    /\ refresh_tokens' = refresh_tokens
    /\ access_tokens' = access_tokens
    /\ \A p \in Procs : call'[p].op = "sign_in" => call[p].op = "sign_in"

\* C26: signIn answers an email no account has and the email of an account
\* with a wrong password with the same ValidationError 'Email or password
\* incorrect', and in both cases creates no refresh-token record and mints no
\* access token.
C26_UnknownEmailAsWrongPassword ==
    [][\A p \in Procs, email \in SignInEmails, password \in Passwords :
          SignInFind(p, email, password)
              /\ (UnknownEmailCase(email) \/ WrongPasswordCase(email, password))
          => SignInRefused]_vars

\* what sign_in does: the refusal is the same whenever no email contains the
\* typed one or the password is not that of the row found
RefusedUnlessContained ==
    [][\A p \in Procs, email \in SignInEmails, password \in Passwords :
          SignInFind(p, email, password) /\ email # <<>>
              /\ (\A u \in users : ~contains(EmailOf(u), email)
                                      \/ ~verify_password(password, user_row[u].password))
          => SignInRefused]_vars

\* a sign-in under an email no account has was given a session
SignedInByEmailPiece ==
    /\ Returned("sign_in")
    /\ last.result = AuthorizedUser
    /\ last.token \in issued

\* a sign_in has just answered AuthorizedUser
SignedIn == Returned("sign_in") /\ last.result = AuthorizedUser

\* C27: a successful signIn for U leaves the number of refresh-token records
\* of U exactly one higher than it was before the call, whatever records U
\* had before.
C27_OneMoreRecord ==
    SignedIn =>
        Cardinality(SessionsOf(refresh_tokens, last.user)) = Cardinality(last.snapshot) + 1

\* C27 as amended: a successful signIn for U inserts exactly one record of U
\* and deletes only records that have expired, in its opportunistic cleanup:
\* with no other request in between, the number of records of U after the
\* call is one higher than before it, less the expired records swept.
C27_OneMoreLessExpired ==
    SignedIn =>
        LET before == last.snapshot
            inserted == NewRefreshRow(last.token, last.user, None)
            created == [inserted EXCEPT !.created_at = last.token.iat]
            after == SessionsOf(refresh_tokens, last.user)
            swept == (before \cup {created}) \ after
        IN  /\ created \notin before
            /\ after \subseteq before \cup {created}
            /\ \A r \in swept : r.expires_at < now
            /\ Cardinality(after) = Cardinality(before) + 1 - Cardinality(swept)
            /\ last.cleanup = "done" => \A r \in after : r.expires_at >= now
            /\ last.cleanup = "failed" => swept = {}

\* C27 happens: a sign-in of an account that had an expired session has
\* succeeded and its cleanup has swept that session
C27_Witness ==
    /\ SignedIn
    /\ last.snapshot # {}
    /\ last.snapshot \cap refresh_tokens = {}
    /\ Cardinality(SessionsOf(refresh_tokens, last.user)) = 1

\* process p takes a step of refresh_access_token
RefreshAccessTokenStep(p) ==
    \/ \E t \in Presentable : ValidateLookup(p, "refresh_access_token", t)
    \/ /\ call[p].op = "refresh_access_token"
       /\ ValidateUpdate(p) \/ RefreshGetUser(p) \/ OpportunisticCleanup(p)

\* a refresh_access_token has just answered AuthorizedUser
Refreshed == Returned("refresh_access_token") /\ last.result = AuthorizedUser

\* C28: a successful refreshAccessToken performs no rotation.  No step of the
\* handler creates a record, and none deletes a record that has not expired:
\* the record of the token presented is only given a last_used_at.  The answer
\* carries the refresh token that was presented and an access token minted
\* for its user during the call, and the token's record is still stored, so
\* the token validates again, until it expires (or is revoked).
C28_NoRotation ==
    /\ [][\A p \in Procs : RefreshAccessTokenStep(p) =>
            /\ \A r \in refresh_tokens' : \E q \in refresh_tokens :
                  r = q \/ r = [q EXCEPT !.last_used_at = r.last_used_at]
            /\ \A q \in refresh_tokens : q.expires_at >= now =>
                  \E r \in refresh_tokens' : r.id = q.id /\ r.token_hash = q.token_hash]_vars
    /\ [](Refreshed =>
            /\ last.token \in issued
            /\ IsSome(last.minted)
            /\ Unwrap(last.minted).sub = last.token.sub
            /\ Unwrap(last.minted).exp = Unwrap(last.minted).iat + AccessTokenExpiration
            /\ Unwrap(last.minted).iat <= now
            /\ get_expiration(last.token) >= now =>
                  \E r \in refresh_tokens : /\ r.token_hash = hash_token(last.token)
                                            /\ r.user_id = last.token.sub
                                            /\ IsSome(r.last_used_at))

\* C28 happens: a refresh has succeeded and the record of its token is still
\* one that validates
C28_Witness ==
    /\ Refreshed
    /\ HoldsValidRecord(last.token, now)
    /\ Cardinality(refresh_tokens) = 1

\* what logout_all_devices may be given as its access token
LogoutAllInputs == access_tokens \cup issued \cup {FakeToken}

\* C29: logoutAllDevices revokes only after authenticating.  Given a token
\* that authenticates as U it deletes every refresh-token record of U and no
\* other in its revoke, and when it answers none of U's refresh tokens has a
\* record; given a token that fails authentication it answers with an error
\* and has deleted no refresh-token record of any user.
C29_RevokeAfterAuthentication ==
    /\ [][\A t \in LogoutAllInputs : LogoutAllGetUser(1, t) =>
            /\ refresh_tokens' = refresh_tokens
            /\ IF get_user(t, now, users).tag = "Authenticated"
               THEN /\ call'[1].pc = "revoke_all"
                    /\ call'[1].user = t.sub
               ELSE /\ last'.pc = "done"
                    /\ last'.result.tag = "AuthError"
                    /\ call'[1].pc = "idle"]_vars
    /\ [][LogoutAllRevoke(1) =>
            /\ \A r \in refresh_tokens' : r.user_id # call[1].user
            /\ \A r \in refresh_tokens : r.user_id # call[1].user => r \in refresh_tokens']_vars
    /\ [](Returned("logout_all_devices") =>
            IF last.result = Ok
            THEN /\ last.user = last.token.sub
                 /\ get_user(last.token, last.now, users) = Authenticated(last.user)
                 /\ \A r \in refresh_tokens : r.user_id # last.user
                 /\ \A t \in issued : t.sub = last.user => ~HoldsValidRecord(t, now)
            ELSE /\ last.result.tag = "AuthError"
                 /\ last.cleanup = "none"
                 /\ last.user = "")

\* C29 happens: U has logged out of all devices, a refresh token of U is left
\* without a record and a session of V is still stored
C29_Witness ==
    /\ Returned("logout_all_devices")
    /\ last.result = Ok
    /\ last.user = "U"
    /\ \E t \in issued : t.sub = "U"
    /\ \E r \in refresh_tokens : r.user_id = "V"

\* a sign_up has just been refused by the single-user gate
RegistrationDisabled ==
    Returned("sign_up") /\ last.result = AuthError("Registration is disabled")

\* C30: in single-user mode the users table never holds more than one row,
\* for every interleaving of concurrent signUp requests, and a signUp that is
\* refused with 'Registration is disabled' is refused because a user exists.
C30_AtMostOneUser ==
    /\ Cardinality(users) <= 1
    /\ RegistrationDisabled => users # {}

\* two sign-ups have counted no user and neither has inserted its row yet
BothPastTheGate ==
    /\ users = {}
    /\ \A p \in Procs : call[p].op = "sign_up" /\ call[p].pc = "create_user"

\* the call was started with a token of this kind that was made for the user
\* whose row the call is about to write, that no call had consumed and that
\* had not expired when the call looked it up, and the call has consumed it
ConsumedFor(c, kind) ==
    \E v \in vissued :
        /\ v.raw = c.token /\ v.kind = kind /\ v.user_id = c.user
        /\ ~c.after_use
        /\ c.now <= v.expires_at
        /\ consumed[c.token] >= 1

\* C31: among reset_password and verify_email, a password is written only by a
\* reset_password that has consumed an unused, unexpired PasswordReset token
\* of the user whose row is written, and email_verified_at is set only by a
\* verify_email that has consumed an unused, unexpired EmailVerification
\* token of that user
C31_TokenOfKindAndOwner ==
    [][\A u \in AllUserIds :
        /\ user_row'[u].password # user_row[u].password =>
              \E p \in Procs : /\ call[p].op = "reset_password" /\ call[p].pc = "update_password"
                               /\ call[p].user = u
                               /\ ConsumedFor(call[p], "PasswordReset")
        /\ user_row'[u].email_verified_at # user_row[u].email_verified_at =>
              \E p \in Procs : /\ call[p].op = "verify_email" /\ call[p].pc = "verify_update"
                               /\ call[p].user = u
                               /\ ConsumedFor(call[p], "EmailVerification")]_vars

\* one account has got a new password and one a verified address while
\* tokens of both kinds were out
C31_Witness ==
    /\ \E u \in users : user_row[u].password = hash_password(PrefixedPassword)
    /\ \E u \in users : IsSome(user_row[u].email_verified_at)
    /\ {v.kind : v \in vissued} = Kinds

\* the step of refresh_access_token that follows validate_refresh_token
AfterValidate(p) == call[p].pc = "get_user" /\ call'[p].pc # "get_user"

\* C32: refresh_access_token mints only for the owner of the record it
\* validated: the token it mints has the user_id of the record as its subject
\* and that user exists; when the user decoded from the presented token is not
\* the record's or is gone, it answers AuthError and mints nothing; and only a
\* refresh that minted answers AuthorizedUser
C32_MintsForOwnerOnly ==
    /\ [][\A p \in Procs : AfterValidate(p) =>
            LET record == Unwrap(call[p].found)
                decoded == get_user_id(call[p].token, now) IN
            /\ call'[p].pc = "cleanup" =>
                  /\ IsSome(call'[p].minted)
                  /\ Unwrap(call'[p].minted).sub = record.user_id
                  /\ record.user_id \in users
            /\ (IsSome(decoded) /\ (Unwrap(decoded) # record.user_id \/ Unwrap(decoded) \notin users)) =>
                  /\ last'.result.tag = "AuthError"
                  /\ last'.minted = None
                  /\ access_tokens' = access_tokens
            /\ call'[p].pc \in {"cleanup", "idle"}]_vars
    /\ [](last.op = "refresh_access_token" /\ last.pc = "done" =>
            IF last.result = AuthorizedUser
            THEN IsSome(last.minted) /\ Unwrap(last.minted).sub = last.token.sub
            ELSE last.result.tag = "AuthError" /\ last.minted = None)

\* a refresh whose record was validated answers that the user is gone: the
\* session was logged out and the account deleted in between
C32_Witness ==
    /\ last.op = "refresh_access_token" /\ last.pc = "done"
    /\ last.result = AuthError("User not found")
    /\ IsSome(last.found)
    /\ Unwrap(last.found).user_id \notin users

\* a refresh has answered with a token for the owner of its record
C32_Minted ==
    /\ last.op = "refresh_access_token" /\ last.result = AuthorizedUser
    /\ IsSome(last.minted) /\ Unwrap(last.minted).sub \in users

\* the token hashes the table holds
StoredHashes == {r.token_hash : r \in refresh_tokens}

\* C33: every create_refresh_token hands out a raw token that no earlier call
\* handed out and whose hash no record has, also for the same user at the
\* same time; no two records share a token_hash; and revoke_refresh_token
\* removes no record but the one of the token it was given
C33_UniquePerIssuance ==
    /\ [](\A r, s \in refresh_tokens : r.token_hash = s.token_hash => r = s)
    /\ [][(last'.op = "create_refresh_token" /\ last'.pc = "done") =>
            /\ last'.token \notin issued
            /\ hash_token(last'.token) \notin StoredHashes
            /\ \A t \in issued : hash_token(t) # hash_token(last'.token)]_vars
    /\ [][(last'.op = "revoke_refresh_token" /\ last'.pc = "done") =>
            /\ \A r \in refresh_tokens \ refresh_tokens' :
                  r.token_hash = hash_token(last'.token)
            /\ Cardinality(refresh_tokens \ refresh_tokens') <= 1]_vars

\* one of two sessions that a user opened in the same instant was revoked
\* and the other is still stored
C33_Witness ==
    /\ last.op = "revoke_refresh_token" /\ last.pc = "done"
    /\ last.token \in issued
    /\ hash_token(last.token) \notin StoredHashes
    /\ \E r \in refresh_tokens :
          /\ r.user_id = last.token.sub
          /\ r.created_at = last.token.iat
          /\ r.expires_at = last.token.exp

\* a validate that has read its record and is about to write last_used_at
\* finds the record deleted
WriteAfterDelete(p) ==
    /\ call[p].pc = "v_update"
    /\ call'[p].pc # "v_update"
    /\ ~RowExists(refresh_tokens, Unwrap(call[p].found))

\* C34: the record of a token that was handed out and is no longer stored is
\* never stored again; a validate_refresh_token whose record was deleted
\* between its lookup and its write of last_used_at writes nothing and
\* returns an AuthError
C34_DeletedStaysDeleted ==
    /\ [][\A t \in issued :
            hash_token(t) \notin StoredHashes => hash_token(t) \notin {r.token_hash : r \in refresh_tokens'}]_vars
    /\ [][\A p \in Procs : WriteAfterDelete(p) =>
            /\ refresh_tokens' = refresh_tokens
            /\ last'.pc = "done" /\ last'.result.tag = "AuthError"]_vars

\* a validate has returned the error of its write: its record was deleted
\* after the lookup, and it is not stored
C34_Witness ==
    /\ last.op = "validate_refresh_token" /\ last.pc = "done"
    /\ last.result = AuthError("None of the records are updated")
    /\ IsSome(last.found)
    /\ Unwrap(last.found).token_hash = hash_token(last.token)
    /\ hash_token(last.token) \notin StoredHashes

\* the verification token of this call was made for this user at the address
\* the user has now
IssuedForCurrentEmail(c, u) ==
    \E v \in vissued :
        /\ v.raw = c.token /\ v.kind = "EmailVerification" /\ v.user_id = u
        /\ v.email = user_row[u].email

\* C35: email_verified_at of a user becomes non-null only in a verify_email
\* that has consumed an EmailVerification token issued for the address the
\* user has at that time
C35_VerifiedOnlyCurrentEmail ==
    [][\A u \in AllUserIds :
        (user_row'[u].email_verified_at # user_row[u].email_verified_at
            /\ IsSome(user_row'[u].email_verified_at)) =>
              \E p \in Procs : /\ call[p].op = "verify_email" /\ call[p].pc = "verify_update"
                               /\ call[p].user = u
                               /\ IssuedForCurrentEmail(call[p], u)]_vars

\* an address that no verification token was ever issued for is marked verified
UnsentAddressVerified ==
    \E u \in users :
        /\ IsSome(user_row[u].email_verified_at)
        /\ \A v \in vissued : v.email # user_row[u].email

\* a change_password has replaced the password the account registered with
\* and no change_password is under way: every change_password that has
\* written the new password has answered, and none answers but with
\* PasswordChangeSuccess once it has written
ChangePasswordAnswered(u) ==
    /\ user_row[u].password # hash_password(StrongPassword)
    /\ \A q \in Procs : call[q].op # "change_password"

\* C36: once change_password has answered with success for a user, no
\* unexpired refresh-token record of that user is stored that a sign_in
\* created after verifying the old password (every sign_in here verifies the
\* password the account registered with)
C36_NoSessionOfOldPassword ==
    \A u \in users :
        ChangePasswordAnswered(u) =>
            \A r \in SessionsOf(refresh_tokens, u) : ~(r.expires_at > now)

\* change_password answers with success, all sessions revoked, while a
\* sign_in that has verified the old password has yet to insert its session
SignInPastCheckAtSuccess ==
    /\ PasswordChanged /\ last.op = "change_password" /\ last.revoke_ok
    /\ SessionsOf(refresh_tokens, last.user) = {}
    /\ \E p \in Procs :
          /\ call[p].op = "sign_in" /\ call[p].pc = "session_create"
          /\ call[p].user = last.user
          /\ ~verify_password(call[p].password, user_row[last.user].password)

\* the session of a sign_in that verified the old password is stored after
\* the change of the password has answered and revoked every session
SessionOfOldPasswordAfterRevokeAll ==
    \E p \in Procs :
        /\ call[p].op = "sign_in" /\ call[p].pc = "cleanup"
        /\ ~verify_password(call[p].password, user_row[call[p].user].password)
        /\ \A q \in Procs : call[q].op # "change_password"
        /\ SessionsOf(refresh_tokens, call[p].user) = {NewRefreshRow(call[p].token, call[p].user, None)}

\* the rows of a raw verification token
VerificationRowsOf(raw_token) == {r \in verification_tokens : r.token_hash = vt_hash_token(raw_token)}

\* reset_password has answered that the new password is not valid
ResetRejected ==
    /\ last.op = "reset_password" /\ last.pc = "done"
    /\ last.result.tag = "ValidationError"

\* C37: when reset_password answers ValidationError for the new password, the
\* token presented is not consumed: its row has no used_at
C37_RejectedResetKeepsToken ==
    ResetRejected =>
        /\ \A r \in VerificationRowsOf(last.token) : r.used_at = None
        /\ consumed[last.token] = 0

\* the answer ValidationError of reset_password comes with no write to the
\* users table
RejectedResetKeepsPassword == [][ResetRejected' => user_row' = user_row]_vars

\* a reset with an acceptable password is refused because the rejected
\* attempt before it has used the token up
RetryAfterRejectionRefused ==
    /\ last.op = "reset_password" /\ last.pc = "done"
    /\ last.password = PrefixedPassword
    /\ last.result = AuthError("Token already used")
    /\ consumed[last.token] = 1
    /\ \A u \in users : user_row[u].password = hash_password(StrongPassword)

\* C38: when reset_password has answered with success for a user, no other
\* PasswordReset token of that user can pass validate_token any more
C38_OtherResetTokensRefused ==
    (PasswordChanged /\ last.op = "reset_password") =>
        \A v \in vissued :
            (v.user_id = last.user /\ v.kind = "PasswordReset" /\ v.raw # last.token) =>
                \A r \in KindRows(verification_tokens, vt_hash_token(v.raw), "PasswordReset") :
                    CheckRow(r, now) # Ok

\* last_used_at as a number: a session never used comes before every use
UsedAt(r) == IF IsSome(r.last_used_at) THEN Unwrap(r.last_used_at) + 1 ELSE 0

\* the rows of the next state that are rows of this state, by primary key
SameRow(r, s) == r.id = s.id

UntouchedSinceLookup(p) == call[p].pc = "v_update" /\ Unwrap(call[p].found) \in refresh_tokens

LastUsedWentBack ==
    /\ last.op = "validate_refresh_token" /\ last.pc = "done" /\ last.result = Ok
    /\ \E r \in refresh_tokens :
          /\ r.id = Unwrap(last.found).id
          /\ r.last_used_at = Some(last.now)
          /\ last.now < now

\* the stored expires_at of every token handed out is the exp signed into it
ExpiresAtIsExp ==
    \A r \in refresh_tokens : \A t \in issued :
        r.token_hash = hash_token(t) => r.expires_at = t.exp

\* a validate_refresh_token that has accepted its token at its time now holds
\* a token whose exp is later than that time
AcceptedBeforeExp ==
    \A p \in Procs : call[p].pc = "v_update" => call[p].token.exp > call[p].now

\* refresh_access_token has answered that the token it had validated has
\* expired
DecodeExpired ==
    /\ last.op = "refresh_access_token" /\ last.pc = "done"
    /\ last.result = AuthError("ExpiredSignature")

\* C40 as stated: expires_at of a record is the exp of its token, a token
\* that validate_refresh_token accepts at t has exp > t, and the decode that
\* refresh_access_token makes next never fails because of expiry
C40_DecodeNeverExpired ==
    /\ ExpiresAtIsExp
    /\ AcceptedBeforeExp
    /\ ~DecodeExpired

\* C40 amended: expires_at of a record is the exp of its token, a token that
\* validate_refresh_token accepts at t has exp > t, and the decode that
\* refresh_access_token makes next fails because of expiry only when it runs
\* later than the leeway after exp
C40_DecodeExpiredOnlyPastLeeway ==
    /\ ExpiresAtIsExp
    /\ AcceptedBeforeExp
    /\ DecodeExpired => now > last.token.exp + Leeway

\* a refresh has decoded its token after the exp of the token, within the
\* leeway, and minted
C40_Witness ==
    \E p \in Procs :
        /\ call[p].op = "refresh_access_token" /\ call[p].pc = "cleanup"
        /\ IsSome(call[p].minted)
        /\ Unwrap(call[p].minted).iat > call[p].token.exp
        /\ \E r \in refresh_tokens : /\ r.token_hash = hash_token(call[p].token)
                                     /\ r.expires_at = call[p].token.exp
====
